---- MODULE Spec2Model ----
(***************************************************************************)
(* fuse-img2heic: the cache (src/src/cache.rs), the conversion worker pool *)
(* (src/src/thread_pool.rs) and the FUSE frontend (src/src/filesystem.rs). *)
(*                                                                         *)
(* Byte strings are modelled as sequences of blocks: a block stands for a  *)
(* run of bytes of known length and known content.  SHA-256 is modelled as *)
(* a collision-free tag of its input, AES-256-GCM as a symbolic AEAD.      *)
(***************************************************************************)
EXTENDS Integers, Sequences, FiniteSets, TLC

VARIABLES
    heic_settings,       \* Config.heic_settings of the running process
    encryption_enabled,  \* ImageCache.encryption_enabled
    data,                \* ImageCache.data: key -> CacheEntry
    access_times,        \* ImageCache.access_times, as the keys in ascending Instant order
    current_size,        \* ImageCache.current_size
    disk,                \* files under cache_dir: key -> file
    last,                \* the cache operation that ran last and what it returned
    ops,                 \* number of cache operations performed (bounded by MaxOps)
    th,                  \* every thread's position and locals (FUSE callbacks, pool workers)
    queue,               \* the pool's submission channel
    chan,                \* the result channel of each convert_image_blocking call
    result,              \* what the last read of each callback thread returned
    served,              \* per path, the bytes a completed miss read returned (entry not evicted since)
    reads,               \* number of read calls started (bounded by MaxReads)
    inode_map,           \* ImageFuseFS.inode_map: inode -> virtual path
    path_map,            \* ImageFuseFS.path_map: virtual path -> inode
    next_inode,          \* ImageFuseFS.next_inode
    cb,                  \* every callback's position in get_or_create_inode and its locals
    returned,            \* the (path, inode) pairs get_or_create_inode has returned
    calls,               \* number of get_or_create_inode calls started (bounded by MaxCalls)
    call,                \* the frontend callback that ran last: its arguments and its reply
    pool,                \* ConversionThreadPool: the submission channel's ends and the worker threads
    host                 \* the host directory of the source: directory -> its entries in read_dir order

cacheVars == <<heic_settings, encryption_enabled, data, access_times, current_size, disk>>
seqVars == <<last, ops>>
poolVars == <<th, queue, chan, result, served, reads>>
inodeVars == <<inode_map, path_map, next_inode, cb, returned, calls>>
frontVars == <<call, pool, host>>
vars == <<heic_settings, encryption_enabled, data, access_times, current_size, disk, last, ops,
          th, queue, chan, result, served, reads,
          inode_map, path_map, next_inode, cb, returned, calls, call, pool, host>>

(***************************************************************************)
(* Bounds and program constants                                            *)
(***************************************************************************)
MaxOps == 3
max_size_mb == 1
HEADER_SIZE == 70
CACHE_FILE_VERSION == 1
TAG_SIZE == 16
ROOT_INODE == 1

CACHE_FILE_MAGIC == "FHIC"
max_size == max_size_mb * 1024 * 1024

\* Option and Result values: <<>> is None / Err, <<x>> is Some(x) / Ok(x)
None == <<>>
Some(x) == <<x>>

(***************************************************************************)
(* Inputs                                                                  *)
(***************************************************************************)
Paths == {"/src/a.jpg", "/src/b.png"}

DefaultSettings == [quality |-> 50, speed |-> 4, chroma |-> 420, max_resolution |-> "none"]
\* the settings a process can be configured with
ConfigSettings == {DefaultSettings, [DefaultSettings EXCEPT !.quality = 80]}
\* the settings a cache call can carry
AllSettings == ConfigSettings \cup {[DefaultSettings EXCEPT !.speed = 6],
                                    [DefaultSettings EXCEPT !.chroma = 444]}
Nonces == {1, 2}

\* length of the host source file
SourceSize(path) == IF path = "/src/a.jpg" THEN 900000 ELSE 800000

\* length of the artifact the codec produces for a source
ArtifactLen(path, settings) ==
    IF path = "/src/a.jpg" THEN 400000
    ELSE IF settings.quality > 50 THEN 1200000 ELSE 700000

(***************************************************************************)
(* Byte strings                                                            *)
(***************************************************************************)
Block(id, part, n) == [id |-> id, part |-> part, n |-> n, enc |-> None, tag |-> None, flip |-> FALSE]

RECURSIVE Size(_)
Size(bytes) == IF bytes = <<>> THEN 0 ELSE Head(bytes).n + Size(Tail(bytes))

\* image_converter::convert_to_heic_blocking: deterministic in (source, settings)
convert_to_heic_blocking(path, settings) ==
    LET id  == <<path, settings>>
        len == ArtifactLen(path, settings)
    IN  <<Block(id, 1, len \div 2), Block(id, 2, len - (len \div 2))>>

Sha256(bytes) == <<"sha256", bytes>>

generate_encryption_key(filepath) == Sha256(<<filepath, "fuse-img2heic-encryption-key">>)

\* Aes256Gcm::encrypt: every block becomes ciphertext under (key, nonce); the last
\* one carries the 16-byte tag, which authenticates the whole plaintext
AeadEncrypt(key, nonce, bytes) ==
    [i \in 1..Len(bytes) |->
        [bytes[i] EXCEPT !.enc = <<key, nonce>>,
                         !.tag = IF i = Len(bytes) THEN <<key, nonce, bytes>> ELSE None,
                         !.n   = IF i = Len(bytes) THEN @ + TAG_SIZE ELSE @]]

\* the plaintext a ciphertext would decrypt to if its tag verified
AeadStrip(bytes) ==
    [i \in 1..Len(bytes) |->
        [bytes[i] EXCEPT !.enc = None, !.tag = None,
                         !.n   = IF i = Len(bytes) /\ bytes[i].tag # None THEN @ - TAG_SIZE ELSE @]]

\* Aes256Gcm::decrypt: Err (None) unless the input is exactly a ciphertext made
\* under this key and nonce
AeadDecrypt(key, nonce, bytes) ==
    IF bytes # <<>> /\ AeadEncrypt(key, nonce, AeadStrip(bytes)) = bytes
    THEN Some(AeadStrip(bytes))
    ELSE None

encrypt_data(bytes, filepath, nonce) ==
    AeadEncrypt(generate_encryption_key(filepath), nonce, bytes)

decrypt_data(bytes, nonce, filepath) ==
    AeadDecrypt(generate_encryption_key(filepath), nonce, bytes)

(***************************************************************************)
(* Cache file header                                                       *)
(***************************************************************************)
new_unencrypted(checksum, quality, speed, chroma) ==
    [magic |-> CACHE_FILE_MAGIC, version |-> CACHE_FILE_VERSION, encrypted |-> 0,
     quality |-> quality, speed |-> speed, chroma |-> chroma,
     checksum |-> checksum, nonce |-> 0]

new_encrypted(checksum, nonce, quality, speed, chroma) ==
    [magic |-> CACHE_FILE_MAGIC, version |-> CACHE_FILE_VERSION, encrypted |-> 1,
     quality |-> quality, speed |-> speed, chroma |-> chroma,
     checksum |-> checksum, nonce |-> nonce]

is_encrypted(header) == header.encrypted = 1

\* a comparison that leaves the chroma field out
matches_heic_settings_no_chroma(header, quality, speed, chroma) ==
    header.quality = quality /\ header.speed = speed

matches_heic_settings(header, quality, speed, chroma) ==
    header.quality = quality /\ header.speed = speed /\ header.chroma = chroma

\* A file is its first HEADER_SIZE bytes (hdr: Some(header), None while the file is
\* shorter) and the payload blocks after them.
EmptyFile == [hdr |-> None, pay |-> <<>>]
FileLen(file) == (IF file.hdr = None THEN 0 ELSE HEADER_SIZE) + Size(file.pay)

\* CacheFileHeader::from_bytes on the first bytes of the file: Some(header), or None for Err
\* a parser that accepts any version number
from_bytes_any_version(file) ==
    IF FileLen(file) < HEADER_SIZE THEN None
    ELSE IF file.hdr[1].magic # CACHE_FILE_MAGIC THEN None
    ELSE file.hdr

from_bytes(file) ==
    IF FileLen(file) < HEADER_SIZE THEN None
    ELSE IF file.hdr[1].magic # CACHE_FILE_MAGIC THEN None
    ELSE IF file.hdr[1].version # CACHE_FILE_VERSION THEN None
    ELSE file.hdr

(***************************************************************************)
(* Cache keys                                                              *)
(***************************************************************************)
\* str::as_bytes of the strings that are hashed
as_bytes(str) ==
    CASE str = "/src/a.jpg" -> <<47, 115, 114, 99, 47, 97, 46, 106, 112, 103>>
      [] str = "/src/b.png" -> <<47, 115, 114, 99, 47, 98, 46, 112, 110, 103>>
      [] str = "2560,1440" -> <<50, 53, 54, 48, 44, 49, 52, 52, 48>>
      [] str = "" -> <<>>

\* to_le_bytes of an integer of `width` bytes
RECURSIVE to_le_bytes(_, _)
to_le_bytes(n, width) ==
    IF width = 0 THEN <<>> ELSE <<n % 256>> \o to_le_bytes(n \div 256, width - 1)

\* the bytes create_cache_key feeds to the hasher, in order; max_resolution
\* "none" is None, which adds nothing
hash_input(filepath, original_size, settings) ==
    as_bytes(filepath) \o to_le_bytes(original_size, 8) \o <<settings.quality>>
        \o <<settings.speed>> \o to_le_bytes(settings.chroma, 2)
        \o (IF settings.max_resolution = "none" THEN <<>>
            ELSE as_bytes(settings.max_resolution))

create_cache_key(filepath, original_size, settings) ==
    Sha256(hash_input(filepath, original_size, settings))

KeyOf(path, settings) == create_cache_key(path, SourceSize(path), settings)

AllKeys == {KeyOf(p, s) : p \in Paths, s \in ConfigSettings}

(***************************************************************************)
(* Maps with a changing domain (DashMap, the cache directory)              *)
(***************************************************************************)
Insert(map, k, v) == [x \in DOMAIN map \cup {k} |-> IF x = k THEN v ELSE map[x]]
Remove(map, k) == [x \in DOMAIN map \ {k} |-> map[x]]
Empty == [x \in {} |-> 0]

\* access_times.insert(key, Instant::now()): the key becomes the most recent
Touch(order, key) == SelectSeq(order, LAMBDA x : x # key) \o <<key>>
Forget(order, key) == SelectSeq(order, LAMBDA x : x # key)

(***************************************************************************)
(* fs::write of a cache file, one write at a time                          *)
(***************************************************************************)
ZeroHeader == [magic |-> "", version |-> 0, encrypted |-> 0, quality |-> 0, speed |-> 0,
               chroma |-> 0, checksum |-> Sha256(<<>>), nonce |-> 0]
ZeroBlock(n) == Block(<<>>, 0, n)

\* the bytes save_to_disk_key writes: header, then plaintext or ciphertext
FileImage(encrypt, bytes, filepath, settings, nonce) ==
    IF encrypt
    THEN [hdr |-> Some(new_encrypted(Sha256(bytes), nonce, settings.quality,
                                     settings.speed, settings.chroma)),
          pay |-> encrypt_data(bytes, filepath, nonce)]
    ELSE [hdr |-> Some(new_unencrypted(Sha256(bytes), settings.quality,
                                       settings.speed, settings.chroma)),
          pay |-> bytes]

\* the file after the writer's first write (header and first payload block, at offset 0)
WriteHead(old, image) ==
    [hdr |-> image.hdr,
     pay |-> <<image.pay[1]>> \o SubSeq(old.pay, 2, Len(old.pay))]

\* the file after the writer's second write (the rest of the payload, at its offset;
\* what another writer truncated away in between reads back as zeros)
WriteTail(old, image) ==
    [hdr |-> IF old.hdr = None THEN Some(ZeroHeader) ELSE old.hdr,
     pay |-> (IF Len(old.pay) >= 1 THEN <<old.pay[1]>> ELSE <<ZeroBlock(image.pay[1].n)>>)
             \o SubSeq(image.pay, 2, Len(image.pay))
             \o SubSeq(old.pay, Len(image.pay) + 1, Len(old.pay))]

WriteOutcomes == {"ok", "err_open", "err_short"}

\* save_to_disk_key run to its end: Ok, or Err before the file is opened
\* (create_dir_all, File::create), or Err in write_all after the first write
save_to_disk_key(files, key, bytes, filepath, settings, nonce, outcome) ==
    LET image == FileImage(encryption_enabled, bytes, filepath, settings, nonce)
    IN  CASE outcome = "ok"        -> Insert(files, key, WriteTail(WriteHead(EmptyFile, image), image))
          [] outcome = "err_short" -> Insert(files, key, WriteHead(EmptyFile, image))
          [] OTHER                 -> files

\* a load that does not compare the SHA-256 of the payload with the header's checksum
load_from_disk_key_unverified(files, key, filepath, settings) ==
    IF key \notin DOMAIN files THEN None
    ELSE LET file == files[key]
             parsed == from_bytes(file)
         IN  IF parsed = None THEN None
             ELSE IF ~matches_heic_settings(parsed[1], settings.quality, settings.speed,
                                            settings.chroma) THEN None
             ELSE IF is_encrypted(parsed[1])
                  THEN IF ~encryption_enabled THEN None
                       ELSE decrypt_data(file.pay, parsed[1].nonce, filepath)
                  ELSE Some(file.pay)

\* a load that also rejects a file without the encrypted flag when encryption is on
load_from_disk_key_symmetric(files, key, filepath, settings) ==
    IF key \notin DOMAIN files THEN None
    ELSE LET file == files[key]
             parsed == from_bytes(file)
         IN  IF FileLen(file) < HEADER_SIZE THEN None
             ELSE IF parsed = None THEN None
             ELSE IF ~matches_heic_settings(parsed[1], settings.quality, settings.speed,
                                            settings.chroma) THEN None
             ELSE IF is_encrypted(parsed[1]) # encryption_enabled THEN None
             ELSE LET decrypted_data ==
                          IF is_encrypted(parsed[1])
                          THEN decrypt_data(file.pay, parsed[1].nonce, filepath)
                          ELSE Some(file.pay)
                  IN  IF decrypted_data = None THEN None
                      ELSE IF Sha256(decrypted_data[1]) # parsed[1].checksum THEN None
                      ELSE decrypted_data

\* load_from_disk_key: Some(plaintext), or None for each Err
load_from_disk_key(files, key, filepath, settings) ==
    IF key \notin DOMAIN files THEN None
    ELSE LET file == files[key]
             parsed == from_bytes(file)
         IN  IF FileLen(file) < HEADER_SIZE THEN None
             ELSE IF parsed = None THEN None
             ELSE IF ~matches_heic_settings(parsed[1], settings.quality, settings.speed,
                                            settings.chroma) THEN None
             ELSE LET header == parsed[1]
                      payload == file.pay
                      decrypted_data ==
                          IF is_encrypted(header)
                          THEN IF ~encryption_enabled THEN None
                               ELSE decrypt_data(payload, header.nonce, filepath)
                          ELSE Some(payload)
                  IN  IF decrypted_data = None THEN None
                      ELSE IF Sha256(decrypted_data[1]) # header.checksum THEN None
                      ELSE decrypted_data

remove_from_disk_key(files, key) == Remove(files, key)

(***************************************************************************)
(* ImageCache operations on a cache value                                  *)
(*   c = [data, access_times, current_size, disk, evicted]                 *)
(* (evicted: the keys the eviction passes of the operation removed)        *)
(***************************************************************************)
Cache == [data |-> data, access_times |-> access_times, current_size |-> current_size,
          disk |-> disk, evicted |-> <<>>]

CacheEntry(bytes) == [data |-> bytes, size |-> Size(bytes)]

RECURSIVE EvictLoop(_, _, _)
EvictLoop(c, entries, target_size) ==
    IF entries = <<>> \/ c.current_size <= target_size THEN c
    ELSE LET key == Head(entries)
         IN  IF key \in DOMAIN c.data
             THEN EvictLoop([data |-> Remove(c.data, key),
                             access_times |-> Forget(c.access_times, key),
                             current_size |-> c.current_size - c.data[key].size,
                             disk |-> remove_from_disk_key(c.disk, key),
                             evicted |-> Append(c.evicted, key)],
                            Tail(entries), target_size)
             ELSE EvictLoop(c, Tail(entries), target_size)

ensure_space(c, needed_size) ==
    IF c.current_size + needed_size <= max_size THEN c
    ELSE LET target_size == IF max_size >= needed_size THEN max_size - needed_size ELSE 0
         IN  EvictLoop(c, c.access_times, target_size)

\* a put that makes room and counts the bytes but does not enter them in the map
put_memory_uncached(c, key, bytes) ==
    LET c1 == ensure_space(c, Size(bytes))
    IN  [c1 EXCEPT !.access_times = Touch(c1.access_times, key),
                   !.current_size = c1.current_size + Size(bytes)]

\* put up to and including the memory insert
put_memory(c, key, bytes) ==
    LET c1 == ensure_space(c, Size(bytes))
    IN  [c1 EXCEPT !.data = Insert(c1.data, key, CacheEntry(bytes)),
                   !.access_times = Touch(c1.access_times, key),
                   !.current_size = c1.current_size + Size(bytes)]

\* a put that only writes the file
put_disk_only(c, key, bytes, filepath, settings, nonce, outcome) ==
    [c EXCEPT !.disk = save_to_disk_key(c.disk, key, bytes, filepath, settings, nonce, outcome)]

put(c, key, bytes, filepath, settings, nonce, outcome) ==
    LET c1 == put_memory(c, key, bytes)
    IN  [c1 EXCEPT !.disk = save_to_disk_key(c1.disk, key, bytes, filepath, settings,
                                             nonce, outcome)]

\* a put that hands the error of save_to_disk_key to its caller
put_result_propagates(outcome) == IF outcome = "ok" THEN "Ok" ELSE "Err"

\* what put returns: the error of save_to_disk_key is logged and put ends in Ok(())
put_result(outcome) == "Ok"

\* a get that leaves a file it could not load where it is
get_keep_invalid(c, key, filepath, settings) ==
    LET c1 == [c EXCEPT !.access_times = Touch(c.access_times, key)]
        loaded == load_from_disk_key(c1.disk, key, filepath, settings)
    IN  IF key \in DOMAIN c1.data
        THEN [c |-> c1, ret |-> Some(c1.data[key].data)]
        ELSE IF loaded # None
        THEN [c |-> IF c1.current_size + Size(loaded[1]) <= max_size
                    THEN [c1 EXCEPT !.data = Insert(c1.data, key, CacheEntry(loaded[1])),
                                    !.current_size = c1.current_size + Size(loaded[1])]
                    ELSE c1,
              ret |-> loaded]
        ELSE [c |-> c1, ret |-> None]

\* get: [c |-> the cache afterwards, ret |-> Some(bytes) or None]
get(c, key, filepath, settings) ==
    LET c1 == [c EXCEPT !.access_times = Touch(c.access_times, key)]
        loaded == load_from_disk_key(c1.disk, key, filepath, settings)
    IN  IF key \in DOMAIN c1.data
        THEN [c |-> c1, ret |-> Some(c1.data[key].data)]
        ELSE IF loaded # None
        THEN [c |-> IF c1.current_size + Size(loaded[1]) <= max_size
                    THEN [c1 EXCEPT !.data = Insert(c1.data, key, CacheEntry(loaded[1])),
                                    !.current_size = c1.current_size + Size(loaded[1])]
                    ELSE c1,
              ret |-> loaded]
        ELSE [c |-> [c1 EXCEPT !.disk = remove_from_disk_key(c1.disk, key)], ret |-> None]

\* one pass of cleanup_worker's loop, after its sleep
cleanup_pass(c) ==
    IF c.current_size > (max_size * 9) \div 10
    THEN ensure_space(c, max_size \div 10)
    ELSE c

\* ImageCache::new in a new process: load_from_disk removes the files it cannot
\* parse a header from and keeps the others on disk, the memory maps start empty
load_from_disk(files) ==
    LET keep == {k \in DOMAIN files : FileLen(files[k]) >= HEADER_SIZE /\ from_bytes(files[k]) # None}
    IN  [k \in keep |-> files[k]]

(***************************************************************************)
(* The inode table                                                         *)
(***************************************************************************)
Callbacks == {"c1", "c2"}
VirtualPaths == {"/", "pictures", "pictures/a.heic"}

NoCall == [pc |-> "idle", path |-> "", inode |-> 0]

\* no callback has run yet; the pool is not looked at
NoCallback == [op |-> "none"]
NoPool == [sender |-> "none"]
NoHost == <<>>

\* ImageFuseFS::new: the root is entered in both maps, the counter starts after it
InodeTableNew ==
    /\ inode_map = Insert(Empty, ROOT_INODE, "/")
    /\ path_map = Insert(Empty, "/", ROOT_INODE)
    /\ next_inode = ROOT_INODE + 1
    /\ cb = [c \in Callbacks |-> NoCall]
    /\ returned = {}
    /\ calls = 0

\* total length of the files of a cache directory
RECURSIVE SumLen(_, _)
SumLen(files, keys) ==
    IF keys = {} THEN 0
    ELSE LET k == CHOOSE x \in keys : TRUE
         IN  FileLen(files[k]) + SumLen(files, keys \ {k})

TotalBytes(files) == SumLen(files, DOMAIN files)

(***************************************************************************)
(* SpecCache: the cache driven one whole operation at a time               *)
(***************************************************************************)
PathOfKey(key) == CHOOSE p \in Paths : \E s \in ConfigSettings : KeyOf(p, s) = key
SettingsOfKey(key) == CHOOSE s \in ConfigSettings : \E p \in Paths : KeyOf(p, s) = key

\* what a previous process can have left in the cache directory under a key: a
\* complete file, a file cut short by a failed write, or an empty file
LeftoverFile(key, encrypt, kind) ==
    LET path == PathOfKey(key)
        settings == SettingsOfKey(key)
        image == FileImage(encrypt, convert_to_heic_blocking(path, settings), path, settings, 1)
    IN  CASE kind = "complete" -> WriteTail(WriteHead(EmptyFile, image), image)
          [] kind = "short"    -> WriteHead(EmptyFile, image)
          [] kind = "magic"    -> [image EXCEPT !.hdr = Some([image.hdr[1] EXCEPT !.magic = "FHIX"])]
          [] kind = "version"  -> [image EXCEPT !.hdr = Some([image.hdr[1] EXCEPT !.version = 2])]
          [] OTHER             -> EmptyFile

NonceChoices == IF encryption_enabled THEN Nonces ELSE {1}

\* the cache directories a process starts on: empty, or one file left behind
Leftovers ==
    {Empty} \cup {Insert(Empty, key, LeftoverFile(key, encrypt, kind)) :
                      key \in AllKeys, encrypt \in BOOLEAN, kind \in {"complete", "short", "empty"}}

\* the smaller set the concurrent runs start on: nothing, or one file of a.jpg
\* written by a process with the same encryption setting
FewLeftovers ==
    {Empty} \cup {Insert(Empty, KeyOf("/src/a.jpg", settings),
                         LeftoverFile(KeyOf("/src/a.jpg", settings), encryption_enabled, kind)) :
                      settings \in ConfigSettings, kind \in {"complete", "short"}}

NoOp == [op |-> "none", key |-> None, settings |-> DefaultSettings, bytes |-> None,
         ret |-> None, inmem |-> FALSE, file |-> None, after_put |-> None,
         evicted |-> <<>>, order |-> <<>>, outcome |-> "none", codec |-> FALSE,
         deleted |-> FALSE, pass_total |-> 0, errno |-> "none", cache |-> None,
         put_ret |-> "none"]

\* the keys with an access time that are stored (in memory or on disk), oldest first
StoredOrder(c) == SelectSeq(c.access_times, LAMBDA k : k \in DOMAIN c.data \cup DOMAIN c.disk)

Before(c, key) ==
    [NoOp EXCEPT !.key = Some(key),
                 !.inmem = key \in DOMAIN c.data,
                 !.file = IF key \in DOMAIN c.disk THEN Some(c.disk[key]) ELSE None,
                 !.order = StoredOrder(c)]

SetCache(c) ==
    /\ data' = c.data
    /\ access_times' = c.access_times
    /\ current_size' = c.current_size
    /\ disk' = c.disk

\* ImageCache::new
InitCache ==
    /\ heic_settings \in ConfigSettings
    /\ encryption_enabled \in BOOLEAN
    /\ data = Empty
    /\ access_times = <<>>
    /\ current_size = 0
    /\ \E left \in Leftovers : disk = load_from_disk(left)
    /\ last = NoOp
    /\ ops = 0
    /\ th = <<>> /\ queue = <<>> /\ chan = <<>> /\ result = <<>> /\ served = <<>> /\ reads = 0
    /\ InodeTableNew
    /\ call = NoCallback
    /\ pool = NoPool
    /\ host = NoHost

\* cache.put_with_context(key, bytes, context), key and context made from one path
CachePut(path, nonce, outcome) ==
    LET key == KeyOf(path, heic_settings)
        bytes == convert_to_heic_blocking(path, heic_settings)
        c == put(Cache, key, bytes, path, heic_settings, nonce, outcome)
    IN  /\ ops < MaxOps
        /\ SetCache(c)
        /\ last' = [Before(Cache, key) EXCEPT !.op = "put", !.settings = heic_settings,
                                              !.bytes = Some(bytes), !.evicted = c.evicted,
                                              !.outcome = outcome,
                                              !.put_ret = put_result(outcome),
                                              !.pass_total =
                                                  TotalBytes(ensure_space(Cache, Size(bytes)).disk)]
        /\ ops' = ops + 1
        /\ UNCHANGED <<frontVars, inodeVars, heic_settings, encryption_enabled, poolVars>>

\* cache.get(key, filepath, settings) for the key of a path, with any settings
CacheGet(path, settings) ==
    LET key == KeyOf(path, heic_settings)
        r == get(Cache, key, path, settings)
    IN  /\ ops < MaxOps
        /\ SetCache(r.c)
        /\ last' = [Before(Cache, key) EXCEPT
                        !.op = "get", !.settings = settings, !.ret = r.ret,
                        !.after_put = IF last.op = "put" /\ last.key = Some(key)
                                      THEN Some([bytes |-> last.bytes[1], settings |-> last.settings])
                                      ELSE None]
        /\ ops' = ops + 1
        /\ UNCHANGED <<frontVars, inodeVars, heic_settings, encryption_enabled, poolVars>>

\* cleanup_worker wakes up
Cleanup ==
    LET c == cleanup_pass(Cache)
    IN  /\ ops < MaxOps
        /\ SetCache(c)
        /\ last' = [NoOp EXCEPT !.op = "cleanup", !.evicted = c.evicted,
                                 !.order = StoredOrder(Cache), !.pass_total = TotalBytes(c.disk)]
        /\ ops' = ops + 1
        /\ UNCHANGED <<frontVars, inodeVars, heic_settings, encryption_enabled, poolVars>>

\* one byte of a stored file's payload (plaintext, ciphertext or tag) is altered on disk
Tamper(key, i) ==
    /\ ops < MaxOps
    /\ key \in DOMAIN disk
    /\ i \in 1..Len(disk[key].pay)
    /\ \A j \in 1..Len(disk[key].pay) : ~disk[key].pay[j].flip
    /\ disk' = [disk EXCEPT ![key].pay[i].flip = TRUE]
    /\ last' = [NoOp EXCEPT !.op = "tamper", !.key = Some(key)]
    /\ ops' = ops + 1
    /\ UNCHANGED <<frontVars, inodeVars, heic_settings, encryption_enabled, data, access_times, current_size, poolVars>>

NextCache ==
    \/ \E path \in Paths, outcome \in WriteOutcomes : CachePut(path, 1, outcome)
    \/ \E path \in Paths, settings \in AllSettings : CacheGet(path, settings)
    \/ Cleanup
    \/ \E key \in AllKeys, i \in 1..2 : Tamper(key, i)

SpecCache == InitCache /\ [][NextCache]_vars

(***************************************************************************)
(* The cache directory is shared: files change under a running process     *)
(***************************************************************************)
FileKinds == {"complete", "short", "empty", "magic", "version"}

\* a process that started on an empty cache directory
InitLoad == InitCache /\ disk = Empty

\* the file of a path is replaced on disk by another writer of the same cache directory
Overwrite(path, encrypt, kind) ==
    LET key == KeyOf(path, heic_settings)
    IN  /\ ops < MaxOps
        /\ disk' = Insert(Remove(disk, key), key, LeftoverFile(key, encrypt, kind))
        /\ last' = [NoOp EXCEPT !.op = "overwrite", !.key = Some(key)]
        /\ ops' = ops + 1
        /\ UNCHANGED <<frontVars, inodeVars, heic_settings, encryption_enabled, data, access_times, current_size, poolVars>>

NextLoad ==
    \/ \E path \in Paths, settings \in AllSettings : CacheGet(path, settings)
    \/ \E encrypt \in BOOLEAN, kind \in FileKinds : Overwrite("/src/a.jpg", encrypt, kind)

SpecLoad == InitLoad /\ [][NextLoad]_vars

(***************************************************************************)
(* SpecRead: whole read callbacks, one after the other                     *)
(***************************************************************************)
InitRead ==
    /\ heic_settings = DefaultSettings
    /\ encryption_enabled \in BOOLEAN
    /\ data = Empty
    /\ access_times = <<>>
    /\ current_size = 0
    /\ \E left \in FewLeftovers : disk = load_from_disk(left)
    /\ last = NoOp
    /\ ops = 0
    /\ th = <<>> /\ queue = <<>> /\ chan = <<>> /\ result = <<>> /\ served = <<>> /\ reads = 0
    /\ InodeTableNew
    /\ call = NoCallback
    /\ pool = NoPool
    /\ host = NoHost

\* a worker that puts the start of an artifact in the cache when the codec fails
worker_job_caches_failure(c, path, settings, codec_ok, outcome) ==
    LET bytes == convert_to_heic_blocking(path, settings)
        key == create_cache_key(path, SourceSize(path), settings)
    IN  IF codec_ok
        THEN [c |-> put(c, key, bytes, path, settings, 1, outcome), msg |-> Some(bytes)]
        ELSE [c |-> put(c, key, SubSeq(bytes, 1, 1), path, settings, 1, outcome), msg |-> None]

\* one job in the worker loop (thread_pool.rs 43-83): the codec, then on success
\* the put and Ok(data) for the caller, on failure Err (None) and no put
worker_job(c, path, settings, codec_ok, outcome) ==
    LET bytes == convert_to_heic_blocking(path, settings)
        key == create_cache_key(path, SourceSize(path), settings)
    IN  IF codec_ok
        THEN [c |-> put(c, key, bytes, path, settings, 1, outcome), msg |-> Some(bytes)]
        ELSE [c |-> c, msg |-> None]

\* ImageFuseFS::read of a convertible file with no other thread running: the
\* lookup and, on a miss, the worker's job, then read's own put or EIO
\* (filesystem.rs 354-400)
SeqRead(path, codec_ok, worker_outcome, outcome) ==
    LET key == KeyOf(path, heic_settings)
        g == get(Cache, key, path, heic_settings)
        w == worker_job(g.c, path, heic_settings, codec_ok, worker_outcome)
        c2 == put(w.c, key, w.msg[1], path, heic_settings, 2, outcome)
    IN  /\ ops < MaxOps
        /\ IF g.ret # None
           THEN /\ codec_ok /\ worker_outcome = "ok" /\ outcome = "ok"
                /\ SetCache(g.c)
                /\ last' = [Before(Cache, key) EXCEPT !.op = "read", !.settings = heic_settings,
                                                      !.ret = g.ret]
           ELSE IF w.msg = None
           THEN /\ worker_outcome = "ok" /\ outcome = "ok"
                /\ SetCache(w.c)
                /\ last' = [Before(Cache, key) EXCEPT
                                !.op = "read", !.settings = heic_settings, !.ret = None,
                                !.codec = TRUE, !.deleted = key \notin DOMAIN g.c.disk,
                                !.outcome = "codec_failed", !.errno = "EIO",
                                !.cache = Some([data |-> g.c.data, disk |-> g.c.disk,
                                                current_size |-> g.c.current_size])]
           ELSE /\ SetCache(c2)
                /\ last' = [Before(Cache, key) EXCEPT
                                !.op = "read", !.settings = heic_settings, !.ret = w.msg,
                                !.codec = TRUE, !.deleted = key \notin DOMAIN g.c.disk,
                                !.evicted = c2.evicted, !.outcome = outcome,
                                !.put_ret = put_result(outcome)]
        /\ ops' = ops + 1
        /\ UNCHANGED <<frontVars, inodeVars, heic_settings, encryption_enabled, poolVars>>

NextRead ==
    \/ \E path \in Paths, codec_ok \in BOOLEAN, worker_outcome \in WriteOutcomes,
          outcome \in WriteOutcomes :
           SeqRead(path, codec_ok, worker_outcome, outcome)
    \/ \E key \in AllKeys, i \in 1..2 : Tamper(key, i)
    \/ Cleanup

SpecRead == InitRead /\ [][NextRead]_vars

(***************************************************************************)
(* Spec: FUSE read callbacks and pool workers running concurrently, one    *)
(* step per access to the shared cache, the channels or the cache file     *)
(***************************************************************************)
MaxReads == 2

Readers == {"r1", "r2"}
Workers == {"w1", "w2"}
Threads == Readers \cup Workers

Idle == [pc |-> "idle", path |-> "", bytes |-> None, fd |-> "none", image |-> None,
         sender |-> "", after |-> None, started |-> FALSE, kept |-> FALSE, stored |-> FALSE]

NoResult == [path |-> "", ret |-> None, codec |-> FALSE, from |-> "none", after |-> None]

KeyOfThread(t) == KeyOf(th[t].path, heic_settings)

\* the threads after the files of `keys` were unlinked: a writer that holds one of
\* them open keeps writing to a file that no longer has a name
Detach(threads, keys) ==
    [t \in DOMAIN threads |->
        IF threads[t].fd = "open" /\ KeyOf(threads[t].path, heic_settings) \in keys
        THEN [threads[t] EXCEPT !.fd = "orphan"] ELSE threads[t]]

\* bookkeeping of an eviction pass that removed the entries of `keys`: a read of
\* such a key no longer follows a completed read, and a put under way (kept) has
\* lost the entry it inserted
Evicted(threads, keys) ==
    [t \in DOMAIN threads |->
        IF threads[t].path \in Paths /\ KeyOf(threads[t].path, heic_settings) \in keys
        THEN [Detach(threads, keys)[t] EXCEPT !.after = None, !.kept = FALSE] ELSE threads[t]]

Unserve(sv, keys) == [p \in Paths |-> IF KeyOf(p, heic_settings) \in keys THEN None ELSE sv[p]]

Range(seq) == {seq[i] : i \in 1..Len(seq)}

Init ==
    /\ heic_settings = DefaultSettings
    /\ encryption_enabled \in BOOLEAN
    /\ data = Empty
    /\ access_times = <<>>
    /\ current_size = 0
    /\ \E left \in FewLeftovers : disk = load_from_disk(left)
    /\ last = NoOp
    /\ ops = 0
    /\ th = [t \in Threads |-> Idle]
    /\ queue = <<>>
    /\ chan = [r \in Readers |-> None]
    /\ result = [r \in Readers |-> NoResult]
    /\ served = [p \in Paths |-> None]
    /\ reads = 0
    /\ InodeTableNew
    /\ call = NoCallback
    /\ pool = NoPool
    /\ host = NoHost

\* read, up to the cache lookup (filesystem.rs 342-359), with prefetch_count = 0
ReadStart(r, path) ==
    /\ th[r].pc = "idle"
    /\ reads < MaxReads
    /\ th' = [th EXCEPT ![r] = [Idle EXCEPT !.pc = "get", !.path = path, !.after = served[path]]]
    /\ reads' = reads + 1
    /\ UNCHANGED <<frontVars, inodeVars, cacheVars, seqVars, queue, chan, result, served>>

\* get: the access time and the memory lookup (cache.rs 247-253)
GetProbe(r) ==
    LET key == KeyOfThread(r)
    IN  /\ th[r].pc = "get"
        /\ access_times' = Touch(access_times, key)
        /\ IF key \in DOMAIN data
           THEN /\ result' = [result EXCEPT ![r] = [path |-> th[r].path, ret |-> Some(data[key].data),
                                                    codec |-> FALSE, from |-> "memory", after |-> th[r].after]]
                /\ th' = [th EXCEPT ![r] = Idle]
           ELSE /\ th' = [th EXCEPT ![r].pc = "load"]
                /\ UNCHANGED result
        /\ UNCHANGED <<frontVars, inodeVars, heic_settings, encryption_enabled, data, current_size, disk, seqVars,
                       queue, chan, served, reads>>

\* get: the disk lookup and, when it succeeds, the memory insert (cache.rs 256-272);
\* a file that was read and found invalid is noted in the thread's record
GetLoad(r) ==
    LET key == KeyOfThread(r)
        loaded == load_from_disk_key(disk, key, th[r].path, heic_settings)
    IN  /\ th[r].pc = "load"
        /\ IF loaded # None
           THEN /\ IF current_size + Size(loaded[1]) <= max_size
                   THEN /\ data' = Insert(data, key, CacheEntry(loaded[1]))
                        /\ current_size' = current_size + Size(loaded[1])
                   ELSE UNCHANGED <<data, current_size>>
                /\ result' = [result EXCEPT ![r] = [path |-> th[r].path, ret |-> loaded,
                                                    codec |-> FALSE, from |-> "disk", after |-> th[r].after]]
                /\ th' = [th EXCEPT ![r] = Idle]
           ELSE /\ th' = [th EXCEPT ![r].pc = "remove",
                                    ![r].image = IF key \in DOMAIN disk THEN Some(disk[key])
                                                 ELSE None]
                /\ UNCHANGED <<data, current_size, result>>
        /\ UNCHANGED <<frontVars, inodeVars, heic_settings, encryption_enabled, access_times, disk, seqVars,
                       queue, chan, served, reads>>

\* get: the invalid or missing file is removed (cache.rs 273-277)
GetRemove(r) ==
    LET key == KeyOfThread(r)
    IN  /\ th[r].pc = "remove"
        /\ disk' = remove_from_disk_key(disk, key)
        /\ th' = [Detach(th, {key}) EXCEPT ![r].pc = "submit", ![r].image = None]
        /\ UNCHANGED <<frontVars, inodeVars, heic_settings, encryption_enabled, data, access_times, current_size,
                       seqVars, queue, chan, result, served, reads>>

\* convert_image_blocking: the job is sent (thread_pool.rs 113-121)
Submit(r) ==
    /\ th[r].pc = "submit"
    /\ queue' = Append(queue, [path |-> th[r].path, sender |-> r])
    /\ th' = [th EXCEPT ![r].pc = "wait"]
    /\ UNCHANGED <<frontVars, inodeVars, cacheVars, seqVars, chan, result, served, reads>>

\* Err(e) in a result channel, which holds nothing, Ok(bytes) as <<bytes>>, or this
SendErr == <<<<>>, <<>>>>

\* convert_image_blocking: the result arrives (thread_pool.rs 123-125)
RecvResult(r) ==
    /\ th[r].pc = "wait"
    /\ chan[r] # None
    /\ chan[r] # SendErr
    /\ chan' = [chan EXCEPT ![r] = None]
    /\ th' = [th EXCEPT ![r].pc = "put", ![r].bytes = Some(chan[r][1])]
    /\ UNCHANGED <<frontVars, inodeVars, cacheVars, seqVars, queue, result, served, reads>>

\* a worker takes the next job and calls the codec (thread_pool.rs 40-46)
WorkerRecv(w) ==
    /\ th[w].pc = "idle"
    /\ queue # <<>>
    /\ queue' = Tail(queue)
    /\ th' = [th EXCEPT ![w] = [Idle EXCEPT !.pc = "convert", !.path = Head(queue).path,
                                            !.sender = Head(queue).sender],
                        ![Head(queue).sender].started = TRUE]
    /\ UNCHANGED <<frontVars, inodeVars, cacheVars, seqVars, chan, result, served, reads>>

\* a worker that sends the bytes without caching them
WorkerConvert_skips_put(w) ==
    /\ th[w].pc = "convert"
    /\ th' = [th EXCEPT ![w].pc = "send",
                        ![w].bytes = Some(convert_to_heic_blocking(th[w].path, heic_settings))]
    /\ UNCHANGED <<frontVars, inodeVars, cacheVars, seqVars, queue, chan, result, served, reads>>

\* the codec returns (thread_pool.rs 43-65)
WorkerConvert(w) ==
    /\ th[w].pc = "convert"
    /\ th' = [th EXCEPT ![w].pc = "put",
                        ![w].bytes = Some(convert_to_heic_blocking(th[w].path, heic_settings))]
    /\ UNCHANGED <<frontVars, inodeVars, cacheVars, seqVars, queue, chan, result, served, reads>>

\* the worker sends the result to the waiting caller (thread_pool.rs 70-73); the
\* caller's record notes whether the worker's put ran and whether its entry is
\* still there
WorkerSend(w) ==
    /\ th[w].pc = "send"
    /\ chan' = [chan EXCEPT ![th[w].sender] = Some(th[w].bytes[1])]
    /\ th' = [th EXCEPT ![w] = Idle, ![th[w].sender].stored = th[w].stored,
                        ![th[w].sender].kept = th[w].kept]
    /\ UNCHANGED <<frontVars, inodeVars, cacheVars, seqVars, queue, result, served, reads>>

\* put, by a worker or by read: eviction pass and memory insert (cache.rs 300-315)
PutMemory(t) ==
    LET c == put_memory(Cache, KeyOfThread(t), th[t].bytes[1])
    IN  /\ th[t].pc = "put"
        /\ SetCache(c)
        /\ th' = [Evicted(th, Range(c.evicted)) EXCEPT ![t].pc = "open", ![t].kept = TRUE,
                                                      ![t].stored = TRUE]
        /\ served' = Unserve(served, Range(c.evicted))
        /\ UNCHANGED <<frontVars, inodeVars, heic_settings, encryption_enabled, seqVars, queue, chan, result, reads>>

\* the thread's put has ended: read returns the bytes, a worker goes on to send
EndPut(t) ==
    /\ th' = [th EXCEPT ![t] = IF t \in Readers THEN Idle
                               ELSE [@ EXCEPT !.pc = "send", !.fd = "none", !.image = None]]
    /\ result' = IF t \in Readers
                 THEN [result EXCEPT ![t] = [path |-> th[t].path, ret |-> th[t].bytes,
                                             codec |-> TRUE, from |-> "pool",
                                             after |-> th[t].after]]
                 ELSE result
    /\ served' = IF t \in Readers /\ th[t].kept
                 THEN [served EXCEPT ![th[t].path] = th[t].bytes]
                 ELSE served

\* save_to_disk_key: the file is created or truncated (cache.rs 466-503), or
\* the call fails before it is
PutOpen(t, nonce, fails) ==
    LET key == KeyOfThread(t)
    IN  /\ th[t].pc = "open"
        /\ IF fails
           THEN /\ EndPut(t)
                /\ UNCHANGED disk
           ELSE /\ disk' = Insert(disk, key, EmptyFile)
                /\ th' = [th EXCEPT ![t].pc = "head", ![t].fd = "open",
                                    ![t].image = Some(FileImage(encryption_enabled, th[t].bytes[1],
                                                                th[t].path, heic_settings, nonce))]
                /\ UNCHANGED <<result, served>>
        /\ UNCHANGED <<frontVars, inodeVars, heic_settings, encryption_enabled, data, access_times, current_size,
                       seqVars, queue, chan, reads>>

\* fs::write: the header and the first part of the payload are written; the
\* write of the rest may fail
PutHead(t, fails) ==
    LET key == KeyOfThread(t)
    IN  /\ th[t].pc = "head"
        /\ disk' = IF th[t].fd = "open"
                   THEN [disk EXCEPT ![key] = WriteHead(@, th[t].image[1])]
                   ELSE disk
        /\ IF fails
           THEN EndPut(t)
           ELSE /\ th' = [th EXCEPT ![t].pc = "tail"]
                /\ UNCHANGED <<result, served>>
        /\ UNCHANGED <<frontVars, inodeVars, heic_settings, encryption_enabled, data, access_times, current_size,
                       seqVars, queue, chan, reads>>

\* fs::write: the rest of the payload is written
PutTail(t) ==
    LET key == KeyOfThread(t)
    IN  /\ th[t].pc = "tail"
        /\ disk' = IF th[t].fd = "open"
                   THEN [disk EXCEPT ![key] = WriteTail(@, th[t].image[1])]
                   ELSE disk
        /\ EndPut(t)
        /\ UNCHANGED <<frontVars, inodeVars, heic_settings, encryption_enabled, data, access_times, current_size,
                       seqVars, queue, chan, reads>>

\* cleanup_worker wakes up (cache.rs 370-387)
CleanupPass ==
    LET c == cleanup_pass(Cache)
    IN  /\ c.evicted # <<>>
        /\ SetCache(c)
        /\ th' = Evicted(th, Range(c.evicted))
        /\ served' = Unserve(served, Range(c.evicted))
        /\ UNCHANGED <<frontVars, inodeVars, heic_settings, encryption_enabled, seqVars, queue, chan, result, reads>>

Next ==
    \/ \E r \in Readers, path \in Paths : ReadStart(r, path)
    \/ \E r \in Readers : GetProbe(r)
    \/ \E r \in Readers : GetLoad(r)
    \/ \E r \in Readers : GetRemove(r)
    \/ \E r \in Readers : Submit(r)
    \/ \E r \in Readers : RecvResult(r)
    \/ \E w \in Workers : WorkerRecv(w)
    \/ \E w \in Workers : WorkerConvert(w)
    \/ \E w \in Workers : WorkerSend(w)
    \/ \E t \in Threads : PutMemory(t)
    \/ \E t \in Threads, nonce \in NonceChoices, fails \in BOOLEAN : PutOpen(t, nonce, fails)
    \/ \E t \in Threads, fails \in BOOLEAN : PutHead(t, fails)
    \/ \E t \in Threads : PutTail(t)
    \/ CleanupPass

Spec == Init /\ [][Next]_vars

(***************************************************************************)
(* The same threads with a codec that can fail                             *)
(***************************************************************************)
\* a process without encryption that started on an empty cache directory
InitOrder == Init /\ encryption_enabled = FALSE /\ disk = Empty

\* the codec returns Err: the worker sends it and caches nothing (thread_pool.rs 75-83)
WorkerFail(w) ==
    /\ th[w].pc = "convert"
    /\ chan' = [chan EXCEPT ![th[w].sender] = SendErr]
    /\ th' = [th EXCEPT ![w] = Idle]
    /\ UNCHANGED <<frontVars, inodeVars, cacheVars, seqVars, queue, result, served, reads>>

\* convert_image_blocking returns the Err and read replies EIO (filesystem.rs 378-381)
RecvErr(r) ==
    /\ th[r].pc = "wait"
    /\ chan[r] = SendErr
    /\ chan' = [chan EXCEPT ![r] = None]
    /\ result' = [result EXCEPT ![r] = [path |-> th[r].path, ret |-> None, codec |-> TRUE,
                                        from |-> "pool", after |-> th[r].after]]
    /\ th' = [th EXCEPT ![r] = Idle]
    /\ UNCHANGED <<frontVars, inodeVars, cacheVars, seqVars, queue, served, reads>>

NextOrder ==
    \/ Next
    \/ \E w \in Workers : WorkerFail(w)
    \/ \E r \in Readers : RecvErr(r)

SpecOrder == InitOrder /\ [][NextOrder]_vars

(***************************************************************************)
(* SpecInode: callbacks calling get_or_create_inode concurrently, one step *)
(* per access to the shared maps and the counter                           *)
(***************************************************************************)
MaxCalls == 3

InitInode ==
    /\ heic_settings = DefaultSettings
    /\ encryption_enabled = TRUE
    /\ data = Empty
    /\ access_times = <<>>
    /\ current_size = 0
    /\ disk = Empty
    /\ last = NoOp
    /\ ops = 0
    /\ th = <<>> /\ queue = <<>> /\ chan = <<>> /\ result = <<>> /\ served = <<>> /\ reads = 0
    /\ InodeTableNew
    /\ call = NoCallback
    /\ pool = NoPool
    /\ host = NoHost

\* path_map.get(virtual_path): the inode is returned when the path has one
InodeLookup(c, path) ==
    /\ cb[c].pc = "idle"
    /\ calls < MaxCalls
    /\ calls' = calls + 1
    /\ IF path \in DOMAIN path_map
       THEN /\ returned' = returned \cup {[path |-> path, inode |-> path_map[path]]}
            /\ UNCHANGED cb
       ELSE /\ cb' = [cb EXCEPT ![c] = [pc |-> "fetch_add", path |-> path, inode |-> 0]]
            /\ UNCHANGED returned
    /\ UNCHANGED <<frontVars, cacheVars, seqVars, poolVars, inode_map, path_map, next_inode>>

\* next_inode.fetch_add(1)
InodeFetchAdd(c) ==
    /\ cb[c].pc = "fetch_add"
    /\ cb' = [cb EXCEPT ![c].pc = "inode_map", ![c].inode = next_inode]
    /\ next_inode' = next_inode + 1
    /\ UNCHANGED <<frontVars, cacheVars, seqVars, poolVars, inode_map, path_map, returned, calls>>

\* inode_map.insert(inode, virtual_path)
InodeMapInsert(c) ==
    /\ cb[c].pc = "inode_map"
    /\ inode_map' = Insert(inode_map, cb[c].inode, cb[c].path)
    /\ cb' = [cb EXCEPT ![c].pc = "path_map"]
    /\ UNCHANGED <<frontVars, cacheVars, seqVars, poolVars, path_map, next_inode, returned, calls>>

\* path_map.insert(virtual_path, inode), and the new inode is returned
PathMapInsert(c) ==
    /\ cb[c].pc = "path_map"
    /\ path_map' = Insert(path_map, cb[c].path, cb[c].inode)
    /\ returned' = returned \cup {[path |-> cb[c].path, inode |-> cb[c].inode]}
    /\ cb' = [cb EXCEPT ![c] = NoCall]
    /\ UNCHANGED <<frontVars, cacheVars, seqVars, poolVars, inode_map, next_inode, calls>>

NextInode ==
    \/ \E c \in Callbacks, path \in VirtualPaths : InodeLookup(c, path)
    \/ \E c \in Callbacks : InodeFetchAdd(c)
    \/ \E c \in Callbacks : InodeMapInsert(c)
    \/ \E c \in Callbacks : PathMapInsert(c)

SpecInode == InitInode /\ [][NextInode]_vars

(***************************************************************************)
(* Machine integers of read's arguments: a 64-bit value is four 16-bit     *)
(* limbs, most significant first                                           *)
(***************************************************************************)
LIMB == 65536
MaxLen == 3

U64(n) == <<0, 0, n \div LIMB, n % LIMB>>
U32_MAX == <<0, 0, LIMB - 1, LIMB - 1>>
U64_MAX == <<LIMB - 1, LIMB - 1, LIMB - 1, LIMB - 1>>

\* a - n for a small n that needs no borrow beyond the last limb
Below(a, n) == [a EXCEPT ![4] = @ - n]

\* usize + usize: the 64-bit sum and whether it overflowed
AddUsize(a, b) ==
    LET s4 == a[4] + b[4]
        s3 == a[3] + b[3] + (s4 \div LIMB)
        s2 == a[2] + b[2] + (s3 \div LIMB)
        s1 == a[1] + b[1] + (s2 \div LIMB)
    IN  [sum |-> <<s1 % LIMB, s2 % LIMB, s3 % LIMB, s4 % LIMB>>, overflow |-> s1 >= LIMB]

RECURSIVE LessFrom(_, _, _)
LessFrom(a, b, i) ==
    IF i > 4 THEN FALSE
    ELSE IF a[i] # b[i] THEN a[i] < b[i]
    ELSE LessFrom(a, b, i + 1)

\* std::cmp::min
MinUsize(a, b) == IF LessFrom(b, a, 1) THEN b ELSE a

\* a value that is at most a slice length, as an index
Index(a) == a[3] * LIMB + a[4]

\* &data[start..end]: the bytes, or a panic when start > end
Slice(bytes, start, end) ==
    IF LessFrom(end, start, 1) THEN [kind |-> "panic", data |-> <<>>]
    ELSE [kind |-> "data", data |-> SubSeq(bytes, Index(start) + 1, Index(end))]

\* read, cache hit (filesystem.rs 363-371). `offset as usize + size as usize`
\* panics on overflow in a build with overflow checks and wraps in one without
serve_cached(cached_data, offset, size, overflow_checks) ==
    LET total == AddUsize(offset, size)
        len == U64(Len(cached_data))
        end == MinUsize(total.sum, len)
        start == MinUsize(offset, len)
    IN  IF total.overflow /\ overflow_checks THEN [kind |-> "panic", data |-> <<>>]
        ELSE Slice(cached_data, start, end)

\* read, after conversion (filesystem.rs 419-425)
serve_converted(data_, offset, size, overflow_checks) ==
    LET total == AddUsize(offset, size)
        end == MinUsize(total.sum, U64(Len(data_)))
        start == MinUsize(offset, U64(Len(data_)))
    IN  IF total.overflow /\ overflow_checks THEN [kind |-> "panic", data |-> <<>>]
        ELSE Slice(data_, start, end)

\* `offset as usize` of readdir's i64 offset: a negative offset becomes 2^64 - |offset|
I64AsUsize(offset) == IF offset < 0 THEN Below(U64_MAX, (-offset) - 1) ELSE U64(offset)

(***************************************************************************)
(* SpecSlice: read's reply for an artifact, an offset and a size           *)
(***************************************************************************)
Artifacts == {[i \in 1..n |-> i] : n \in 0..MaxLen}
Offsets == {U64(0), U64(1), U64(2), U64(MaxLen), U64(MaxLen + 1), U64(LIMB), <<0, 1, 0, 0>>,
            Below(U64_MAX, 1), U64_MAX}
Sizes == {U64(0), U64(1), U64(2), U64(4096), U32_MAX}

InitSlice ==
    /\ heic_settings = DefaultSettings
    /\ encryption_enabled = TRUE
    /\ data = Empty
    /\ access_times = <<>>
    /\ current_size = 0
    /\ disk = Empty
    /\ last = NoOp
    /\ ops = 0
    /\ th = <<>> /\ queue = <<>> /\ chan = <<>> /\ result = <<>> /\ served = <<>> /\ reads = 0
    /\ InodeTableNew
    /\ call = NoCallback
    /\ pool = NoPool
    /\ host = NoHost

\* read answers from the cache
ReadHit(bytes, offset, size, overflow_checks) ==
    /\ call' = [op |-> "read", hit |-> TRUE, bytes |-> bytes, offset |-> offset, size |-> size,
                overflow_checks |-> overflow_checks,
                reply |-> serve_cached(bytes, offset, size, overflow_checks)]
    /\ UNCHANGED <<cacheVars, seqVars, poolVars, inodeVars, pool, host>>

\* read answers with the bytes the pool returned
ReadMiss(bytes, offset, size, overflow_checks) ==
    /\ call' = [op |-> "read", hit |-> FALSE, bytes |-> bytes, offset |-> offset, size |-> size,
                overflow_checks |-> overflow_checks,
                reply |-> serve_converted(bytes, offset, size, overflow_checks)]
    /\ UNCHANGED <<cacheVars, seqVars, poolVars, inodeVars, pool, host>>

NextSlice ==
    \/ \E bytes \in Artifacts, offset \in Offsets, size \in Sizes, overflow_checks \in BOOLEAN :
           ReadHit(bytes, offset, size, overflow_checks)
    \/ \E bytes \in Artifacts, offset \in Offsets, size \in Sizes, overflow_checks \in BOOLEAN :
           ReadMiss(bytes, offset, size, overflow_checks)

SpecSlice == InitSlice /\ [][NextSlice]_vars

(***************************************************************************)
(* SpecPool: the worker pool from its creation to the end of its drop:     *)
(* convert_image_blocking and prefetch calls, the worker loops, Drop       *)
(***************************************************************************)
CodecOutcomes == {"ok", "err", "panic"}
\* the number of jobs submitted to the pool
MaxJobs == 2
\* the files the pool is asked for
PoolPaths == {"/src/a.jpg"}

IdleCaller == [pc |-> "idle", path |-> "", ret |-> "none"]
\* a worker blocked in receiver.recv(); late: its job was still queued when the
\* submission channel was closed
IdleWorker == [pc |-> "recv", path |-> "", sender |-> "", late |-> FALSE]
EmptyChan == [state |-> "empty", bytes |-> <<>>]

\* the workers that still hold the receiving end of the submission channel
Receivers(threads) == {w \in Workers : threads[w].pc \notin {"exited", "dead"}}

\* a job whose result sender outlives it
drop_job_leaks_sender(chans, job) == chans

\* a job is dropped: if it has a result sender that sent nothing, its receiver
\* finds the channel closed
drop_job(chans, job) ==
    IF job.sender \in Readers /\ chans[job.sender].state = "empty"
    THEN [chans EXCEPT ![job.sender].state = "closed"]
    ELSE chans

RECURSIVE drop_jobs(_, _)
drop_jobs(chans, jobs) ==
    IF jobs = <<>> THEN chans ELSE drop_jobs(drop_job(chans, Head(jobs)), Tail(jobs))

\* ConversionThreadPool::new, and the cache it is given
InitPool ==
    /\ heic_settings = DefaultSettings
    /\ encryption_enabled = FALSE
    /\ data = Empty
    /\ access_times = <<>>
    /\ current_size = 0
    /\ disk = Empty
    /\ last = NoOp
    /\ ops = 0
    /\ th = [t \in Threads |-> IF t \in Workers THEN IdleWorker ELSE IdleCaller]
    /\ queue = <<>>
    /\ chan = [r \in Readers |-> EmptyChan]
    /\ result = <<>> /\ served = <<>> /\ reads = 0
    /\ InodeTableNew
    /\ call = NoCallback
    /\ pool = [sender |-> "open", drop |-> "none", workers |-> <<"w1", "w2">>]
    /\ host = NoHost

\* convert_image_blocking up to result_receiver.recv(): submit_job fails when no
\* worker holds the receiving end any more
PoolCall(r, path) ==
    /\ pool.drop = "none"
    /\ th[r].pc = "idle"
    /\ ops < MaxJobs
    /\ ops' = ops + 1
    /\ IF Receivers(th) # {}
       THEN /\ queue' = Append(queue, [path |-> path, sender |-> r])
            /\ chan' = [chan EXCEPT ![r] = EmptyChan]
            /\ th' = [th EXCEPT ![r] = [pc |-> "wait", path |-> path, ret |-> "none"]]
       ELSE /\ th' = [th EXCEPT ![r] = [pc |-> "idle", path |-> path, ret |-> "err"]]
            /\ UNCHANGED <<queue, chan>>
    /\ UNCHANGED <<inodeVars, cacheVars, last, result, served, reads, call, pool, host>>

\* convert_image_blocking: result_receiver.recv() returns the message, or Err
\* when the job's sender was dropped
PoolReturn(r) ==
    /\ th[r].pc = "wait"
    /\ chan[r].state # "empty"
    /\ th' = [th EXCEPT ![r].pc = "idle",
                        ![r].ret = IF chan[r].state = "closed" THEN "cancelled"
                                   ELSE chan[r].state]
    /\ chan' = [chan EXCEPT ![r] = EmptyChan]
    /\ UNCHANGED <<inodeVars, cacheVars, seqVars, queue, result, served, reads, call, pool, host>>

\* a prefetch that submits without asking the cache
PoolPrefetch_always_submits(path) ==
    LET g == get(Cache, KeyOf(path, heic_settings), path, heic_settings)
    IN  /\ pool.drop = "none"
        /\ ops < MaxJobs
        /\ ops' = ops + 1
        /\ SetCache(g.c)
        /\ queue' = IF Receivers(th) # {}
                    THEN Append(queue, [path |-> path, sender |-> ""])
                    ELSE queue
        /\ UNCHANGED <<inodeVars, heic_settings, encryption_enabled, last, th, chan, result,
                       served, reads, call, pool, host>>

\* prefetch: nothing is submitted when the cache has the artifact
PoolPrefetch(path) ==
    LET g == get(Cache, KeyOf(path, heic_settings), path, heic_settings)
    IN  /\ pool.drop = "none"
        /\ ops < MaxJobs
        /\ ops' = ops + 1
        /\ SetCache(g.c)
        /\ queue' = IF g.ret = None /\ Receivers(th) # {}
                    THEN Append(queue, [path |-> path, sender |-> ""])
                    ELSE queue
        /\ UNCHANGED <<inodeVars, heic_settings, encryption_enabled, last, th, chan, result,
                       served, reads, call, pool, host>>

\* a receiver that hands out the job submitted last
WorkerTake_newest_first(w) ==
    /\ th[w].pc = "recv"
    /\ queue # <<>>
    /\ queue' = SubSeq(queue, 1, Len(queue) - 1)
    /\ th' = [th EXCEPT ![w].pc = "convert", ![w].path = queue[Len(queue)].path,
                        ![w].sender = queue[Len(queue)].sender,
                        ![w].late = @ \/ pool.sender = "closed"]
    /\ UNCHANGED <<inodeVars, cacheVars, seqVars, chan, result, served, reads, call, pool, host>>

\* worker loop: receiver.recv() returns a job; jobs still queued are handed out
\* after the sending end was dropped too
WorkerTake(w) ==
    /\ th[w].pc = "recv"
    /\ queue # <<>>
    /\ queue' = Tail(queue)
    /\ th' = [th EXCEPT ![w].pc = "convert", ![w].path = Head(queue).path,
                        ![w].sender = Head(queue).sender,
                        ![w].late = @ \/ pool.sender = "closed"]
    /\ UNCHANGED <<inodeVars, cacheVars, seqVars, chan, result, served, reads, call, pool, host>>

\* a worker loop that polls on, whatever recv() returns
WorkerExit_keeps_polling(w) ==
    /\ th[w].pc = "recv"
    /\ queue = <<>>
    /\ pool.sender = "closed"
    /\ UNCHANGED vars

\* worker loop: receiver.recv() returns Err (queue empty, sending end dropped)
WorkerExit(w) ==
    /\ th[w].pc = "recv"
    /\ queue = <<>>
    /\ pool.sender = "closed"
    /\ th' = [th EXCEPT ![w].pc = "exited"]
    /\ UNCHANGED <<inodeVars, cacheVars, seqVars, queue, chan, result, served, reads, call, pool, host>>

\* worker loop: the codec returns Ok (put, then send), returns Err (send), or
\* panics: the thread dies, its job is dropped, and when it held the last
\* receiving end the queued jobs are dropped with the channel
WorkerRun(w, codec, outcome) ==
    LET job == [path |-> th[w].path, sender |-> th[w].sender]
        j == worker_job(Cache, th[w].path, heic_settings, codec = "ok", outcome)
        sent == IF job.sender \in Readers
                THEN [chan EXCEPT ![job.sender] =
                          IF j.msg # None THEN [state |-> "ok", bytes |-> j.msg[1]]
                          ELSE [state |-> "err", bytes |-> <<>>]]
                ELSE chan
        last_receiver == Receivers(th) = {w}
    IN  /\ th[w].pc = "convert"
        /\ codec = "ok" \/ outcome = "ok"
        /\ IF codec = "panic"
           THEN /\ th' = [th EXCEPT ![w].pc = "dead"]
                /\ chan' = IF last_receiver THEN drop_jobs(drop_job(chan, job), queue)
                           ELSE drop_job(chan, job)
                /\ queue' = IF last_receiver THEN <<>> ELSE queue
                /\ UNCHANGED <<data, access_times, current_size, disk>>
           ELSE /\ SetCache(j.c)
                /\ chan' = drop_job(sent, job)
                /\ th' = [th EXCEPT ![w].pc = "recv"]
                /\ UNCHANGED queue
        /\ UNCHANGED <<inodeVars, heic_settings, encryption_enabled, seqVars, result, served,
                       reads, call, pool, host>>

\* Drop: the sending end is dropped; no callback holds the pool any more
DropClose ==
    /\ pool.drop = "none"
    /\ \A r \in Readers : th[r].pc = "idle"
    /\ pool' = [pool EXCEPT !.sender = "closed", !.drop = "joining"]
    /\ UNCHANGED <<inodeVars, cacheVars, seqVars, poolVars, call, host>>

\* Drop: workers.pop() and join, which returns once that worker's thread has ended
DropJoin ==
    /\ pool.drop = "joining"
    /\ IF pool.workers = <<>>
       THEN pool' = [pool EXCEPT !.drop = "done"]
       ELSE /\ th[pool.workers[Len(pool.workers)]].pc \in {"exited", "dead"}
            /\ pool' = [pool EXCEPT !.workers = SubSeq(@, 1, Len(@) - 1)]
    /\ UNCHANGED <<inodeVars, cacheVars, seqVars, poolVars, call, host>>

NextPool ==
    \/ \E r \in Readers, path \in PoolPaths : PoolCall(r, path)
    \/ \E r \in Readers : PoolReturn(r)
    \/ \E path \in PoolPaths : PoolPrefetch(path)
    \/ \E w \in Workers : WorkerTake(w)
    \/ \E w \in Workers : WorkerExit(w)
    \/ \E w \in Workers, codec \in CodecOutcomes, outcome \in WriteOutcomes :
           WorkerRun(w, codec, outcome)
    \/ DropClose
    \/ DropJoin

\* the steps of the pool's own threads and of a caller that has submitted
PoolStep ==
    \/ \E r \in Readers : PoolReturn(r)
    \/ \E w \in Workers : WorkerTake(w)
    \/ \E w \in Workers : WorkerExit(w)
    \/ \E w \in Workers, codec \in CodecOutcomes, outcome \in WriteOutcomes :
           WorkerRun(w, codec, outcome)
    \/ DropJoin

\* a thread that can take a step is scheduled eventually, and every codec call
\* ends
SpecPool ==
    InitPool /\ [][NextPool]_vars /\ WF_vars(PoolStep)

(***************************************************************************)
(* SpecDir: lookup, readdir and readdirplus over one source, "pics", whose *)
(* host directory does not change; callbacks run one at a time.            *)
(* A file name is its stem and its extension; a path is the sequence of    *)
(* its components, "/" being the one component of the root                 *)
(***************************************************************************)
Name(stem, ext) == [stem |-> stem, ext |-> ext]
RootPath == <<Name("/", "")>>
mount_name == Name("pics", "")
\* a name that is not UTF-8: to_str() fails on it
NonUtf8 == Name("<ff>", "jpg")

\* ImageFormat::from_extension, which compares in lower case
from_extension(ext) ==
    CASE ext \in {"jpg", "jpeg", "JPG"} -> "Jpeg"
      [] ext = "png" -> "Png"
      [] ext = "gif" -> "Gif"
      [] ext \in {"heic", "heif"} -> "Heic"
      [] ext = "webp" -> "Webp"
      [] ext = "bmp" -> "Bmp"
      [] ext \in {"tif", "tiff"} -> "Tiff"
      [] OTHER -> "none"

\* Path::parent
Parent(path) ==
    IF path = <<>> \/ path = RootPath THEN None ELSE Some(SubSeq(path, 1, Len(path) - 1))

\* the entry of the host at a path below the source, if there is one
HostEntry(h, real) ==
    IF real = <<>> \/ SubSeq(real, 1, Len(real) - 1) \notin DOMAIN h THEN None
    ELSE LET dir == h[SubSeq(real, 1, Len(real) - 1)]
             at == {i \in 1..Len(dir) : dir[i].name = real[Len(real)]}
         IN  IF at = {} THEN None ELSE Some(dir[CHOOSE i \in at : TRUE])

\* Path::exists
Exists(h, real) == real \in DOMAIN h \/ HostEntry(h, real) # None

\* ImageFormat::from_content on what infer::get makes of the first bytes: one of
\* the seven formats, a type infer knows that is none of them, or nothing
from_content(content) ==
    CASE content = "jpeg" -> "Jpeg"
      [] content = "png" -> "Png"
      [] content = "gif" -> "Gif"
      [] content = "heic" -> "Heic"
      [] content = "webp" -> "Webp"
      [] content = "bmp" -> "Bmp"
      [] content = "tiff" -> "Tiff"
      [] OTHER -> "none"

\* the default filename_patterns: .*\.(jpg|jpeg|png|gif|heic)$
filename_patterns == {"jpg", "jpeg", "png", "gif", "heic"}

\* a detector that never opens the file
is_image_file_by_name_only(h, real) ==
    real # <<>> /\ real[Len(real)] # NonUtf8 /\ real[Len(real)].ext \in filename_patterns

\* FileDetector::is_image_file: the name matches a pattern, or the file exists, a
\* read of its first 512 bytes returns at least one byte, and they are those of an image
is_image_file(h, real) ==
    \/ real # <<>> /\ real[Len(real)] # NonUtf8
                   /\ real[Len(real)].ext \in filename_patterns
    \/ /\ HostEntry(h, real) # None
       /\ HostEntry(h, real)[1].kind = "file"
       /\ HostEntry(h, real)[1].content # "empty"
       /\ from_content(HostEntry(h, real)[1].content) # "none"

get_display_name(name) ==
    IF name.ext # "" /\ from_extension(name.ext) # "none" THEN Name(name.stem, "heic") ELSE name

list_real_directory_with_exclusions(h, real_dir) ==
    IF real_dir \notin DOMAIN h THEN <<>>
    ELSE LET listed(e) == /\ e.name # NonUtf8
                          /\ ~e.mount_point
                          /\ e.kind = "dir" \/ is_image_file(h, Append(real_dir, e.name))
             kept == SelectSeq(h[real_dir], listed)
         IN  [i \in 1..Len(kept) |->
                 IF kept[i].kind = "dir" THEN [name |-> kept[i].name, is_directory |-> TRUE]
                 ELSE [name |-> get_display_name(kept[i].name), is_directory |-> FALSE]]

\* the root lists the sources whose path exists; any other directory is parsed
\* into mount name and subpath, and an unknown mount name is an error
list_virtual_directory_with_exclusions(h, virtual_dir) ==
    IF virtual_dir = RootPath
    THEN IF <<>> \in DOMAIN h THEN <<[name |-> mount_name, is_directory |-> TRUE]>> ELSE <<>>
    ELSE IF virtual_dir = <<>> \/ virtual_dir[1] # mount_name THEN <<>>
    ELSE list_real_directory_with_exclusions(h, Tail(virtual_dir))

is_virtual_directory(h, virtual_path) ==
    IF virtual_path = RootPath \/ virtual_path = <<>> THEN TRUE
    ELSE IF virtual_path[1] = NonUtf8 THEN FALSE
    ELSE IF Len(virtual_path) = 1 THEN virtual_path[1] = mount_name
    ELSE virtual_path[1] = mount_name /\ Tail(virtual_path) \in DOMAIN h

\* the other way round: sources first, a heic file last
extensions_heic_last == <<"jpg", "jpeg", "png", "gif", "webp", "bmp", "tiff", "heic">>

\* FileDetector::get_real_path: the host path below the source, or None
extensions == <<"heic", "jpg", "jpeg", "png", "gif", "webp", "bmp", "tiff">>

get_real_path(h, virtual_path) ==
    IF virtual_path = <<>> \/ virtual_path[1] = NonUtf8 \/ virtual_path[1] # mount_name THEN None
    ELSE LET base_path == Tail(virtual_path)
             last_name == virtual_path[Len(virtual_path)]
             sibling(i) == Append(SubSeq(base_path, 1, Len(base_path) - 1),
                                  Name(last_name.stem, extensions[i]))
             found == {i \in 1..Len(extensions) : Exists(h, sibling(i))}
         IN  IF last_name.ext = "heic"
             THEN IF base_path = <<>> \/ last_name = NonUtf8 \/ found = {} THEN None
                  ELSE Some(sibling(CHOOSE i \in found : \A j \in found : i <= j))
             ELSE IF Exists(h, base_path) /\ is_image_file(h, base_path) THEN Some(base_path)
             ELSE None

\* get_or_create_inode run alone, on the table t of both maps and the counter
get_or_create_inode(t, virtual_path) ==
    IF virtual_path \in DOMAIN t.path_map
    THEN [t |-> t, inode |-> t.path_map[virtual_path]]
    ELSE [t |-> [inode_map |-> Insert(t.inode_map, t.next_inode, virtual_path),
                 path_map |-> Insert(t.path_map, virtual_path, t.next_inode),
                 next_inode |-> t.next_inode + 1],
          inode |-> t.next_inode]

Join(virtual_dir, name) == IF virtual_dir = RootPath THEN <<name>> ELSE Append(virtual_dir, name)

\* ImageFuseFS::list_directory: every listed entry gets its inode, in order
RECURSIVE list_entries(_, _, _, _)
list_entries(t, virtual_dir, dir_entries, entries) ==
    IF dir_entries = <<>> THEN [t |-> t, entries |-> entries]
    ELSE LET e == Head(dir_entries)
             g == get_or_create_inode(t, Join(virtual_dir, e.name))
         IN  list_entries(g.t, virtual_dir, Tail(dir_entries),
                          Append(entries, [name |-> e.name, inode |-> g.inode,
                                           kind |-> IF e.is_directory THEN "Directory"
                                                    ELSE "RegularFile"]))

list_directory(t, h, virtual_dir) ==
    list_entries(t, virtual_dir, list_virtual_directory_with_exclusions(h, virtual_dir), <<>>)

\* readdir and readdirplus build the same entries: ".", ".." unless the path is
\* "/", then the listing, each with offset index + 1
all_entries(t, h, parent) ==
    LET virtual_path == t.inode_map[parent]
        l == list_directory(t, h, virtual_path)
        up == IF Parent(virtual_path) # None
              THEN get_or_create_inode(l.t, Parent(virtual_path)[1])
              ELSE [t |-> l.t, inode |-> ROOT_INODE]
        dots == IF virtual_path # RootPath
                THEN <<[name |-> Name(".", ""), inode |-> parent, kind |-> "Directory"],
                       [name |-> Name("..", ""), inode |-> up.inode, kind |-> "Directory"]>>
                ELSE <<[name |-> Name(".", ""), inode |-> parent, kind |-> "Directory"]>>
        all == dots \o l.entries
    IN  [t |-> IF virtual_path # RootPath THEN up.t ELSE l.t,
         entries |-> [i \in 1..Len(all) |->
                         [name |-> all[i].name, inode |-> all[i].inode, kind |-> all[i].kind,
                          offset |-> i]]]

\* a skip that takes the cookie for a 0-based index
skip_drops_next_entry(entries, offset) ==
    SubSeq(entries, Index(MinUsize(offset, U64(Len(entries)))) + 2, Len(entries))

\* .skip(offset as usize)
skip(entries, offset) ==
    SubSeq(entries, Index(MinUsize(offset, U64(Len(entries)))) + 1, Len(entries))

Table == [inode_map |-> inode_map, path_map |-> path_map, next_inode |-> next_inode]

SetTable(t) ==
    /\ inode_map' = t.inode_map
    /\ path_map' = t.path_map
    /\ next_inode' = t.next_inode

\* the entries the host directory may hold, in read_dir order, and the
\* directory below it
HostEntries ==
    <<[name |-> Name("sub", ""), kind |-> "dir", content |-> "none", mount_point |-> FALSE],
      [name |-> Name("mnt", ""), kind |-> "dir", content |-> "none", mount_point |-> TRUE],
      [name |-> Name("a", "jpg"), kind |-> "file", content |-> "jpeg", mount_point |-> FALSE],
      [name |-> Name("a", "png"), kind |-> "file", content |-> "png", mount_point |-> FALSE],
      [name |-> Name("notes", "txt"), kind |-> "file", content |-> "none", mount_point |-> FALSE],
      [name |-> Name("IMG_1", ""), kind |-> "file", content |-> "jpeg", mount_point |-> FALSE],
      [name |-> NonUtf8, kind |-> "file", content |-> "jpeg", mount_point |-> FALSE]>>

SubEntries ==
    <<[name |-> Name("b", "png"), kind |-> "file", content |-> "png", mount_point |-> FALSE]>>

Hosts ==
    {LET present(e) == \E i \in chosen : HostEntries[i] = e
         top == SelectSeq(HostEntries, present)
         dirs == {<<top[i].name>> : i \in {j \in 1..Len(top) : top[j].kind = "dir"}}
     IN  [d \in {<<>>} \cup dirs |->
             IF d = <<>> THEN top ELSE IF d = <<Name("sub", "")>> THEN SubEntries ELSE <<>>]
     : chosen \in SUBSET (1..Len(HostEntries))}
    \cup {Empty}

\* the names lookup is called with, and the offsets of the readdir calls
LookupNames ==
    {mount_name, Name("sub", ""), Name("a", "heic"), Name("a", "jpg"), Name("b", "heic"),
     Name("notes", "txt"), Name("IMG_1", ""), Name("nothing", "heic"), NonUtf8}
MaxInode == 4
DirOffsets == -1..4
\* the number of lookup and readdir calls
MaxDirCalls == 2

InitDir ==
    /\ heic_settings = DefaultSettings
    /\ encryption_enabled = FALSE
    /\ data = Empty
    /\ access_times = <<>>
    /\ current_size = 0
    /\ disk = Empty
    /\ last = NoOp
    /\ ops = 0
    /\ th = <<>> /\ queue = <<>> /\ chan = <<>> /\ result = <<>> /\ served = <<>> /\ reads = 0
    /\ inode_map = Insert(Empty, ROOT_INODE, RootPath)
    /\ path_map = Insert(Empty, RootPath, ROOT_INODE)
    /\ next_inode = ROOT_INODE + 1
    /\ cb = [c \in Callbacks |-> NoCall]
    /\ returned = {}
    /\ calls = 0
    /\ call = NoCallback
    /\ pool = NoPool
    /\ host \in Hosts

\* a lookup that gets the inode before it knows what the path is
lookup_allocates_first(t, h, parent, name) ==
    LET virtual_path == Join(t.inode_map[parent], name)
        g == get_or_create_inode(t, virtual_path)
    IN  IF parent \notin DOMAIN t.inode_map
        THEN [t |-> t, errno |-> "ENOENT", inode |-> 0, kind |-> "none"]
        ELSE IF name = NonUtf8
        THEN [t |-> t, errno |-> "EINVAL", inode |-> 0, kind |-> "none"]
        ELSE IF get_real_path(h, virtual_path) # None
        THEN [t |-> g.t, errno |-> "none", inode |-> g.inode, kind |-> "RegularFile"]
        ELSE IF is_virtual_directory(h, virtual_path)
        THEN [t |-> g.t, errno |-> "none", inode |-> g.inode, kind |-> "Directory"]
        ELSE [t |-> g.t, errno |-> "ENOENT", inode |-> 0, kind |-> "none"]

\* lookup. The size of a file's attributes comes from the cache, which holds
\* nothing here, so it is the size of the host file and the cache stays as it is
lookup(t, h, parent, name) ==
    LET parent_path == t.inode_map[parent]
        virtual_path == Join(parent_path, name)
        g == get_or_create_inode(t, virtual_path)
    IN  IF parent \notin DOMAIN t.inode_map
        THEN [t |-> t, errno |-> "ENOENT", inode |-> 0, kind |-> "none"]
        ELSE IF name = NonUtf8
        THEN [t |-> t, errno |-> "EINVAL", inode |-> 0, kind |-> "none"]
        ELSE IF get_real_path(h, virtual_path) # None
        THEN [t |-> g.t, errno |-> "none", inode |-> g.inode, kind |-> "RegularFile"]
        ELSE IF is_virtual_directory(h, virtual_path)
        THEN [t |-> g.t, errno |-> "none", inode |-> g.inode, kind |-> "Directory"]
        ELSE [t |-> t, errno |-> "ENOENT", inode |-> 0, kind |-> "none"]

Lookup(parent, name) ==
    LET r == lookup(Table, host, parent, name)
    IN  /\ calls < MaxDirCalls
        /\ calls' = calls + 1
        /\ SetTable(r.t)
        /\ call' = [op |-> "lookup", parent |-> parent, name |-> name, offset |-> 0,
                    errno |-> r.errno, inode |-> r.inode, kind |-> r.kind, entries |-> <<>>,
                    before |-> Table]
        /\ UNCHANGED <<cacheVars, seqVars, poolVars, cb, returned, pool, host>>

\* readdir (offset: i64) and readdirplus (offset: u64)
Readdir(op, parent, offset) ==
    LET a == all_entries(Table, host, parent)
    IN  /\ calls < MaxDirCalls
        /\ calls' = calls + 1
        /\ op = "readdirplus" => offset >= 0
        /\ IF parent \notin DOMAIN inode_map
           THEN /\ call' = [op |-> op, parent |-> parent, name |-> Name("", ""),
                            offset |-> offset, errno |-> "ENOENT", inode |-> 0,
                            kind |-> "none", entries |-> <<>>, before |-> Table]
                /\ UNCHANGED <<inode_map, path_map, next_inode>>
           ELSE /\ call' = [op |-> op, parent |-> parent, name |-> Name("", ""),
                            offset |-> offset, errno |-> "none", inode |-> 0,
                            kind |-> "none", entries |-> skip(a.entries, I64AsUsize(offset)),
                            before |-> Table]
                /\ SetTable(a.t)
        /\ UNCHANGED <<cacheVars, seqVars, poolVars, cb, returned, pool, host>>

NextDir ==
    \/ \E parent \in 1..MaxInode, name \in LookupNames : Lookup(parent, name)
    \/ \E op \in {"readdir", "readdirplus"}, parent \in 1..MaxInode, offset \in DirOffsets :
           Readdir(op, parent, offset)

SpecDir == InitDir /\ [][NextDir]_vars

(***************************************************************************)
(* SpecKey: create_cache_key called time after time; the call before is    *)
(* kept next to the last one                                               *)
(***************************************************************************)
KeyInputs ==
    [filepath : Paths, original_size : {800000, 900000},
     settings : {[x EXCEPT !.max_resolution = r] :
                     x \in AllSettings, r \in {"none", "", "2560,1440"}}]

CreateKey(b) ==
    LET a == IF call.op = "none" THEN b ELSE call.b
    IN  /\ call' = [op |-> "create_cache_key", a |-> a, b |-> b,
                    key_a |-> create_cache_key(a.filepath, a.original_size, a.settings),
                    key_b |-> create_cache_key(b.filepath, b.original_size, b.settings)]
        /\ UNCHANGED <<cacheVars, seqVars, poolVars, inodeVars, pool, host>>

NextKey == \E b \in KeyInputs : CreateKey(b)

SpecKey == InitSlice /\ [][NextKey]_vars

(***************************************************************************)
(* SpecResolve: get_real_path for a virtual path, over host directories    *)
(* that hold files of one stem with different extensions                   *)
(***************************************************************************)
ResolveExts == <<"heic", "jpg", "png", "tiff", "tif">>

ResolveHosts ==
    {LET present(e) == \E i \in chosen : e.name = Name("a", ResolveExts[i])
         files == [i \in 1..Len(ResolveExts) |->
                      [name |-> Name("a", ResolveExts[i]), kind |-> "file",
                       content |-> "jpeg", mount_point |-> FALSE]]
     IN  Insert(Empty, <<>>, SelectSeq(files, present))
     : chosen \in SUBSET (1..Len(ResolveExts))}

ResolvePaths ==
    {<<mount_name, Name("a", "heic")>>, <<Name("other", ""), Name("a", "heic")>>,
     <<mount_name, Name("a", "png")>>, <<mount_name, Name("z", "heic")>>}

InitResolve ==
    /\ heic_settings = DefaultSettings
    /\ encryption_enabled = FALSE
    /\ data = Empty
    /\ access_times = <<>>
    /\ current_size = 0
    /\ disk = Empty
    /\ last = NoOp
    /\ ops = 0
    /\ th = <<>> /\ queue = <<>> /\ chan = <<>> /\ result = <<>> /\ served = <<>> /\ reads = 0
    /\ InodeTableNew
    /\ call = NoCallback
    /\ pool = NoPool
    /\ host \in ResolveHosts

Resolve(virtual_path) ==
    /\ call' = [op |-> "get_real_path", virtual_path |-> virtual_path,
                ret |-> get_real_path(host, virtual_path)]
    /\ UNCHANGED <<cacheVars, seqVars, poolVars, inodeVars, pool, host>>

NextResolve == \E virtual_path \in ResolvePaths : Resolve(virtual_path)

SpecResolve == InitResolve /\ [][NextResolve]_vars

(***************************************************************************)
(* Classification of one host path                                         *)
(***************************************************************************)
DetectNames == {Name("a", "jpg"), Name("a", "JPG"), Name("notes", "txt"), Name("IMG_1", ""),
                Name("a", "tiff"), NonUtf8}

\* what the first 512 bytes of a file can be: nothing, an image of the seven
\* formats, a type infer knows that is not one of them, or bytes infer does not know
DetectContents == {"empty", "jpeg", "png", "tiff", "ico", "pdf", "none"}

\* one directory: empty, or with one entry that is a directory or a file
DetectHosts ==
    {Insert(Empty, <<>>, <<>>)} \cup
    {Insert(Empty, <<>>, <<[name |-> name, kind |-> "dir", content |-> "none",
                            mount_point |-> FALSE]>>) : name \in DetectNames} \cup
    {Insert(Empty, <<>>, <<[name |-> name, kind |-> "file", content |-> content,
                            mount_point |-> FALSE]>>) :
         name \in DetectNames, content \in DetectContents}

InitDetect ==
    /\ heic_settings = DefaultSettings
    /\ encryption_enabled = FALSE
    /\ data = Empty
    /\ access_times = <<>>
    /\ current_size = 0
    /\ disk = Empty
    /\ last = NoOp
    /\ ops = 0
    /\ th = <<>> /\ queue = <<>> /\ chan = <<>> /\ result = <<>> /\ served = <<>> /\ reads = 0
    /\ InodeTableNew
    /\ call = NoCallback
    /\ pool = NoPool
    /\ host \in DetectHosts

Detect(name) ==
    /\ call' = [op |-> "is_image_file", path |-> <<name>>, ret |-> is_image_file(host, <<name>>)]
    /\ UNCHANGED <<cacheVars, seqVars, poolVars, inodeVars, pool, host>>

NextDetect == \E name \in DetectNames : Detect(name)

SpecDetect == InitDetect /\ [][NextDetect]_vars

(***************************************************************************)
(* Sizes in the attributes of regular files                                *)
(***************************************************************************)
\* the source directory /src, mounted as "pics", holds a.jpg and b.png
AttrHost ==
    Insert(Empty, <<>>,
           <<[name |-> Name("a", "jpg"), kind |-> "file", content |-> "jpeg", mount_point |-> FALSE],
             [name |-> Name("b", "png"), kind |-> "file", content |-> "png", mount_point |-> FALSE]>>)

SourcePathOf(real_path) == IF real_path = <<Name("a", "jpg")>> THEN "/src/a.jpg" ELSE "/src/b.png"

\* a size query that removes the cache file it has read
cached_or_original_size_drops_file(c, real_path) ==
    LET path == SourcePathOf(real_path)
        r == get(c, KeyOf(path, heic_settings), path, heic_settings)
    IN  [c |-> [r.c EXCEPT !.disk = Remove(@, KeyOf(path, heic_settings))],
         size |-> IF r.ret # None THEN Size(r.ret[1]) ELSE SourceSize(path)]

\* lookup and getattr: the length of what cache.get_with_context returns, else the
\* length of the source
cached_or_original_size(c, real_path) ==
    LET path == SourcePathOf(real_path)
        original_size == SourceSize(path)
        r == get(c, KeyOf(path, heic_settings), path, heic_settings)
    IN  [c |-> r.c, size |-> IF r.ret # None THEN Size(r.ret[1]) ELSE original_size]

\* what the cache holds for a source at the time of a call
Held(real_path) ==
    get(Cache, KeyOf(SourcePathOf(real_path), heic_settings), SourcePathOf(real_path),
        heic_settings).ret

InitAttr ==
    /\ heic_settings = DefaultSettings
    /\ encryption_enabled = FALSE
    /\ data = Empty
    /\ access_times = <<>>
    /\ current_size = 0
    /\ \E kind \in {"complete", "short", "empty"} :
           disk = load_from_disk(Insert(Empty, KeyOf("/src/a.jpg", DefaultSettings),
                                        LeftoverFile(KeyOf("/src/a.jpg", DefaultSettings), FALSE, kind)))
    /\ last = NoOp
    /\ ops = 0
    /\ th = <<>> /\ queue = <<>> /\ chan = <<>> /\ result = <<>> /\ served = <<>> /\ reads = 0
    /\ inode_map = Insert(Empty, ROOT_INODE, RootPath)
    /\ path_map = Insert(Empty, RootPath, ROOT_INODE)
    /\ next_inode = ROOT_INODE + 1
    /\ cb = [c \in Callbacks |-> NoCall]
    /\ returned = {}
    /\ calls = 0
    /\ call = NoCallback
    /\ pool = NoPool
    /\ host = AttrHost

\* ImageFuseFS::lookup with the size of the attributes it replies
AttrLookup(parent, name) ==
    LET r == lookup(Table, host, parent, name)
        virtual_path == Join(inode_map[parent], name)
        real_path == get_real_path(host, virtual_path)[1]
        s == cached_or_original_size(Cache, real_path)
    IN  /\ ops < MaxOps
        /\ ops' = ops + 1
        /\ SetTable(r.t)
        /\ IF r.kind = "RegularFile"
           THEN /\ SetCache(s.c)
                /\ call' = [op |-> "lookup", errno |-> r.errno, kind |-> r.kind,
                            sizes |-> <<[real_path |-> real_path, size |-> s.size,
                                         held |-> Held(real_path)]>>]
           ELSE /\ call' = [op |-> "lookup", errno |-> r.errno, kind |-> r.kind, sizes |-> <<>>]
                /\ UNCHANGED <<data, access_times, current_size, disk>>
        /\ UNCHANGED <<heic_settings, encryption_enabled, last, poolVars, cb, returned, calls,
                       pool, host>>

\* ImageFuseFS::getattr
AttrGetattr(inode) ==
    LET virtual_path == inode_map[inode]
        real == get_real_path(host, virtual_path)
        s == cached_or_original_size(Cache, real[1])
    IN  /\ ops < MaxOps
        /\ ops' = ops + 1
        /\ IF inode = ROOT_INODE
           THEN /\ call' = [op |-> "getattr", errno |-> "none", kind |-> "Directory", sizes |-> <<>>]
                /\ UNCHANGED <<data, access_times, current_size, disk>>
           ELSE IF inode \notin DOMAIN inode_map
           THEN /\ call' = [op |-> "getattr", errno |-> "ENOENT", kind |-> "none", sizes |-> <<>>]
                /\ UNCHANGED <<data, access_times, current_size, disk>>
           ELSE IF real # None
           THEN /\ SetCache(s.c)
                /\ call' = [op |-> "getattr", errno |-> "none", kind |-> "RegularFile",
                            sizes |-> <<[real_path |-> real[1], size |-> s.size,
                                         held |-> Held(real[1])]>>]
           ELSE IF is_virtual_directory(host, virtual_path)
           THEN /\ call' = [op |-> "getattr", errno |-> "none", kind |-> "Directory", sizes |-> <<>>]
                /\ UNCHANGED <<data, access_times, current_size, disk>>
           ELSE /\ call' = [op |-> "getattr", errno |-> "ENOENT", kind |-> "none", sizes |-> <<>>]
                /\ UNCHANGED <<data, access_times, current_size, disk>>
        /\ UNCHANGED <<heic_settings, encryption_enabled, last, poolVars, inodeVars, pool, host>>

\* ImageFuseFS::readdirplus from offset 0: the sizes in the attributes of the files
AttrReaddirplus(parent) ==
    LET a == all_entries(Table, host, parent)
        virtual_path == inode_map[parent]
        files == SelectSeq(a.entries, LAMBDA e : e.kind = "RegularFile")
        real(e) == get_real_path(host, Join(virtual_path, e.name))
    IN  /\ ops < MaxOps
        /\ ops' = ops + 1
        /\ IF parent \notin DOMAIN inode_map
           THEN /\ call' = [op |-> "readdirplus", errno |-> "ENOENT", kind |-> "none", sizes |-> <<>>]
                /\ UNCHANGED <<inode_map, path_map, next_inode>>
           ELSE /\ SetTable(a.t)
                /\ call' = [op |-> "readdirplus", errno |-> "none", kind |-> "Directory",
                            sizes |-> [i \in 1..Len(files) |->
                                          [real_path |-> real(files[i])[1],
                                           size |-> IF real(files[i]) # None
                                                    THEN SourceSize(SourcePathOf(real(files[i])[1]))
                                                    ELSE 0,
                                           held |-> Held(real(files[i])[1])]]]
        /\ UNCHANGED <<cacheVars, last, poolVars, cb, returned, calls, pool, host>>

AttrNames == {mount_name, Name("a", "heic"), Name("b", "heic")}

NextAttr ==
    \/ \E path \in Paths : CachePut(path, 1, "ok")
    \/ \E parent \in 1..MaxInode, name \in AttrNames : AttrLookup(parent, name)
    \/ \E inode \in 1..MaxInode : AttrGetattr(inode)
    \/ \E parent \in 1..MaxInode : AttrReaddirplus(parent)

SpecAttr == InitAttr /\ [][NextAttr]_vars

(***************************************************************************)
(* The prefetch hook of read                                               *)
(***************************************************************************)
MaxPrefetch == 2

\* the file names of the directory in the order of their bytes, which is the order
\* of PathBuf for paths of one parent
ByteOrder == <<Name("B", "jpg"), Name("a", "jpg"), Name("b", "png"), Name("c", "txt"),
               Name("d", ""), Name("e", "jpg"), Name("f", "gif")>>

Rank(name) == CHOOSE i \in 1..Len(ByteOrder) : ByteOrder[i] = name

\* the entries in the order read_dir happens to return them
PrefetchEntries ==
    <<[name |-> Name("f", "gif"), kind |-> "file", content |-> "gif", mount_point |-> FALSE],
      [name |-> Name("d", ""), kind |-> "file", content |-> "jpeg", mount_point |-> FALSE],
      [name |-> Name("a", "jpg"), kind |-> "file", content |-> "jpeg", mount_point |-> FALSE],
      [name |-> Name("e", "jpg"), kind |-> "dir", content |-> "none", mount_point |-> FALSE],
      [name |-> Name("c", "txt"), kind |-> "file", content |-> "none", mount_point |-> FALSE],
      [name |-> Name("B", "jpg"), kind |-> "file", content |-> "empty", mount_point |-> FALSE],
      [name |-> Name("b", "png"), kind |-> "file", content |-> "pdf", mount_point |-> FALSE]>>

PrefetchHosts ==
    {Insert(Empty, <<>>, SelectSeq(PrefetchEntries, LAMBDA e : e.name \in present)) :
         present \in SUBSET {PrefetchEntries[i].name : i \in 1..Len(PrefetchEntries)}}

\* FileDetector::detect_format: the content of an existing file first, then the extension
detect_format(e) ==
    IF e.kind = "file" /\ e.content # "empty" /\ from_content(e.content) # "none"
    THEN from_content(e.content)
    ELSE from_extension(e.name.ext)

\* image_converter::is_convertible_format (should_convert is true of every format)
is_convertible_format(e) == detect_format(e) # "none"

\* Vec::sort of paths of one directory
RECURSIVE sort(_)
sort(names) ==
    IF names = {} THEN <<>>
    ELSE LET first == CHOOSE n \in names : \A m \in names : Rank(n) <= Rank(m)
         IN  <<first>> \o sort(names \ {first})

\* a hook that takes the files in the order read_dir returned them
files_unsorted(dir) ==
    LET kept == SelectSeq(dir, LAMBDA e : e.kind = "file" /\ is_convertible_format(e))
    IN  [i \in 1..Len(kept) |-> kept[i].name]

\* prefetch_next_files: files, filtered and sorted
files_sorted(dir) ==
    sort({dir[i].name : i \in {j \in 1..Len(dir) :
                                  dir[j].kind = "file" /\ is_convertible_format(dir[j])}})

\* prefetch_next_files: the paths prefetch is called with, in the order of the calls
prefetch_next_files(h, current_real_path, count) ==
    LET current_name == current_real_path[Len(current_real_path)]
        files == files_sorted(h[Parent(current_real_path)[1]])
        at == {i \in 1..Len(files) : files[i] = current_name}
    IN  IF at = {} THEN <<>>
        ELSE LET idx == CHOOSE i \in at : \A j \in at : i <= j
             IN  SubSeq(files, idx + 1, IF idx + count <= Len(files) THEN idx + count
                                        ELSE Len(files))

InitHook ==
    /\ heic_settings = DefaultSettings
    /\ encryption_enabled = FALSE
    /\ data = Empty
    /\ access_times = <<>>
    /\ current_size = 0
    /\ disk = Empty
    /\ last = NoOp
    /\ ops = 0
    /\ th = <<>> /\ queue = <<>> /\ chan = <<>> /\ result = <<>> /\ served = <<>> /\ reads = 0
    /\ InodeTableNew
    /\ \E prefetch_count \in 0..MaxPrefetch :
           call = [op |-> "config", prefetch_count |-> prefetch_count,
                   current |-> Name("", ""), prefetched |-> <<>>]
    /\ pool = NoPool
    /\ host \in PrefetchHosts

\* read, lines 350-352: the prefetch calls of a read that serves current_name
ReadHook(current_name) ==
    /\ call' = [op |-> "read", prefetch_count |-> call.prefetch_count,
                current |-> current_name,
                prefetched |-> IF call.prefetch_count > 0
                               THEN prefetch_next_files(host, <<current_name>>,
                                                        call.prefetch_count)
                               ELSE <<>>]
    /\ UNCHANGED <<cacheVars, seqVars, poolVars, inodeVars, pool, host>>

NextHook == \E i \in 1..Len(ByteOrder) : ReadHook(ByteOrder[i])

SpecHook == InitHook /\ [][NextHook]_vars

(***************************************************************************)
(* Names the listing shows, looked up                                      *)
(***************************************************************************)
AgreeEntries ==
    <<[name |-> Name("a", "heif"), kind |-> "file", content |-> "heic", mount_point |-> FALSE],
      [name |-> Name("b", "tif"), kind |-> "file", content |-> "tiff", mount_point |-> FALSE],
      [name |-> Name("c", "JPG"), kind |-> "file", content |-> "jpeg", mount_point |-> FALSE],
      [name |-> Name("d", "jpg"), kind |-> "file", content |-> "jpeg", mount_point |-> FALSE],
      [name |-> Name("IMG_1", ""), kind |-> "file", content |-> "jpeg", mount_point |-> FALSE]>>

AgreeHosts ==
    {Insert(Empty, <<>>, SelectSeq(AgreeEntries, LAMBDA e : e.name \in present)) :
         present \in SUBSET {AgreeEntries[i].name : i \in 1..Len(AgreeEntries)}}

AgreeNames == {mount_name, Name("a", "heic"), Name("b", "heic"), Name("c", "heic"),
               Name("d", "heic"), Name("IMG_1", "")}

InitAgree ==
    /\ heic_settings = DefaultSettings
    /\ encryption_enabled = FALSE
    /\ data = Empty
    /\ access_times = <<>>
    /\ current_size = 0
    /\ disk = Empty
    /\ last = NoOp
    /\ ops = 0
    /\ th = <<>> /\ queue = <<>> /\ chan = <<>> /\ result = <<>> /\ served = <<>> /\ reads = 0
    /\ inode_map = Insert(Empty, ROOT_INODE, RootPath)
    /\ path_map = Insert(Empty, RootPath, ROOT_INODE)
    /\ next_inode = ROOT_INODE + 1
    /\ cb = [c \in Callbacks |-> NoCall]
    /\ returned = {}
    /\ calls = 0
    /\ call = NoCallback
    /\ pool = NoPool
    /\ host \in AgreeHosts

NextAgree ==
    \/ \E parent \in 1..MaxInode, name \in AgreeNames : Lookup(parent, name)
    \/ \E parent \in 1..MaxInode : Readdir("readdir", parent, 0)

SpecAgree == InitAgree /\ [][NextAgree]_vars

(***************************************************************************)
(* SpecPrio: reads with the prefetch hook, and the pool that serves them   *)
(***************************************************************************)
\* the sorted listing of the directory the files that are read lie in
PrioFiles == <<"/src/a.jpg", "/src/b.png">>

\* the files.iter().skip(idx + 1).take(count) of prefetch_next_files
FollowingFiles(path, count) ==
    LET idx == CHOOSE i \in 1..Len(PrioFiles) : PrioFiles[i] = path
        last_idx == IF idx + count < Len(PrioFiles) THEN idx + count ELSE Len(PrioFiles)
    IN  SubSeq(PrioFiles, idx + 1, last_idx)

\* thread_pool.prefetch for each file in turn: the cache after the lookups, and the
\* submission queue with one job added for each file the cache did not have; by names
\* the read whose hook submitted the job
RECURSIVE prefetch_each(_, _, _, _)
prefetch_each(c, jobs, files, by) ==
    IF files = <<>> THEN [c |-> c, queue |-> jobs]
    ELSE LET g == get(c, KeyOf(Head(files), heic_settings), Head(files), heic_settings)
         IN  prefetch_each(g.c,
                           IF g.ret = None /\ Receivers(th) # {}
                           THEN Append(jobs, [path |-> Head(files), sender |-> "", by |-> by])
                           ELSE jobs,
                           Tail(files), by)

\* a mounted filesystem with its pool, configured with a prefetch depth
InitPrio ==
    /\ heic_settings = DefaultSettings
    /\ encryption_enabled = FALSE
    /\ data = Empty
    /\ access_times = <<>>
    /\ current_size = 0
    /\ disk = Empty
    /\ last = NoOp
    /\ ops = 0
    /\ th = [t \in Threads |-> IF t \in Workers THEN IdleWorker ELSE IdleCaller]
    /\ queue = <<>>
    /\ chan = [r \in Readers |-> EmptyChan]
    /\ result = <<>> /\ served = <<>> /\ reads = 0
    /\ InodeTableNew
    /\ \E count \in 0..MaxPrefetch : call = [op |-> "config", prefetch_count |-> count]
    /\ pool = [sender |-> "open", drop |-> "none", workers |-> <<"w1", "w2">>]
    /\ host = NoHost

\* read, up to result_receiver.recv(): the prefetch hook, the cache lookup, and on a
\* miss the submission of the read's own job
ReadSubmit(r, path) ==
    LET hooked == IF call.prefetch_count > 0
                  THEN prefetch_each(Cache, queue, FollowingFiles(path, call.prefetch_count), r)
                  ELSE [c |-> Cache, queue |-> queue]
        g == get(hooked.c, KeyOf(path, heic_settings), path, heic_settings)
    IN  /\ th[r].pc = "idle"
        /\ ops < MaxJobs
        /\ ops' = ops + 1
        /\ SetCache(g.c)
        /\ IF g.ret # None
           THEN /\ th' = [th EXCEPT ![r] = [pc |-> "idle", path |-> path, ret |-> "hit"]]
                /\ queue' = hooked.queue
                /\ UNCHANGED chan
           ELSE IF Receivers(th) # {}
           THEN /\ queue' = Append(hooked.queue, [path |-> path, sender |-> r, by |-> r])
                /\ chan' = [chan EXCEPT ![r] = EmptyChan]
                /\ th' = [th EXCEPT ![r] = [pc |-> "wait", path |-> path, ret |-> "none"]]
           ELSE /\ th' = [th EXCEPT ![r] = [pc |-> "idle", path |-> path, ret |-> "err"]]
                /\ queue' = hooked.queue
                /\ UNCHANGED chan
        /\ UNCHANGED <<inodeVars, heic_settings, encryption_enabled, last, result, served,
                       reads, call, pool, host>>

NextPrio ==
    \/ \E r \in Readers, path \in Paths : ReadSubmit(r, path)
    \/ \E r \in Readers : PoolReturn(r)
    \/ \E w \in Workers : WorkerTake(w)
    \/ \E w \in Workers, codec \in CodecOutcomes, outcome \in WriteOutcomes :
           WorkerRun(w, codec, outcome)

SpecPrio == InitPrio /\ [][NextPrio]_vars


(***************************************************************************)
(* Properties                                                              *)
(***************************************************************************)
\* C1 (Spec): single-flight. Of two convert_image_blocking calls for the same
\* key that are waiting at the same time, at most one has had the codec
\* started for its job.
SingleFlight ==
    \A r1 \in Readers, r2 \in Readers :
        (/\ r1 # r2
         /\ th[r1].pc = "wait" /\ th[r2].pc = "wait"
         /\ th[r1].path = th[r2].path)
        => ~(th[r1].started /\ th[r2].started)

\* C2 (Spec): whatever a read returns for a path, from the memory map, from a
\* cache file or from the pool, is the complete artifact of the codec for that
\* path under the settings of the key, in every interleaving of reads, puts,
\* file writes, invalidating gets and eviction passes.
ReaderGetsCompleteArtifact ==
    \A r \in Readers :
        result[r].ret # None
        => result[r].ret = Some(convert_to_heic_blocking(result[r].path, heic_settings))

\* a read was answered from a cache file
ReaderServedFromDisk ==
    \E r \in Readers : result[r].from = "disk" /\ result[r].ret # None

\* C3 (SpecCache): round trip. A get(k, C) that directly follows put(k, P, C)
\* returns exactly P, with encryption on and off and whatever became of the
\* file write.
SameParams(s1, s2) ==
    s1.quality = s2.quality /\ s1.speed = s2.speed /\ s1.chroma = s2.chroma

RoundTrip ==
    (/\ last.op = "get"
     /\ last.after_put # None
     /\ SameParams(last.settings, last.after_put[1].settings))
    => last.ret = Some(last.after_put[1].bytes)

RoundTripEncrypted ==
    /\ last.op = "get"
    /\ last.after_put # None
    /\ SameParams(last.settings, last.after_put[1].settings)
    /\ encryption_enabled
    /\ last.ret = Some(last.after_put[1].bytes)

\* the file of the key, before the operation, has a header that parses and records
\* other settings than the ones the operation carries
FileOfOtherParams ==
    /\ last.file # None
    /\ from_bytes(last.file[1]) # None
    /\ ~SameParams(from_bytes(last.file[1])[1], last.settings)

FileTampered ==
    /\ last.file # None
    /\ \E i \in 1..Len(last.file[1].pay) : last.file[1].pay[i].flip

InodeStable ==
    \A x \in returned, y \in returned : x.path = y.path => x.inode = y.inode

\* C7 (SpecInode): whenever no call is under way, inode 1 is the root, and
\* inode_map and path_map are inverses of each other (so no path has two inodes).
InodeTableBijective ==
    (\A c \in Callbacks : cb[c].pc = "idle")
    => (/\ inode_map[ROOT_INODE] = "/"
        /\ \A i \in DOMAIN inode_map :
               inode_map[i] \in DOMAIN path_map /\ path_map[inode_map[i]] = i
        /\ \A q \in DOMAIN path_map :
               path_map[q] \in DOMAIN inode_map /\ inode_map[path_map[q]] = q)

\* C8 (SpecCache): right after an eviction pass that deleted something, by put
\* or by the cleanup worker, the files in the cache directory hold at most
\* max_size bytes in total.
EvictionBound ==
    (last.op \in {"put", "cleanup"} /\ last.evicted # <<>>)
    => last.pass_total <= max_size

\* C9 (SpecCache): the entries an eviction pass deletes are the first ones of
\* the stored entries taken in ascending order of access time.
EvictionOrder ==
    last.op \in {"put", "cleanup"}
    => /\ Len(last.evicted) <= Len(last.order)
       /\ last.evicted = SubSeq(last.order, 1, Len(last.evicted))

\* C10 (Spec): a read of a path that another read has completed after a miss,
\* the entry not evicted since, returns the same bytes as that read and is
\* answered from the cache, not by the pool.
SecondReadFromCache ==
    \A r \in Readers :
        result[r].after # None
        => (result[r].ret = result[r].after /\ ~result[r].codec)

SecondReadDone ==
    \E r \in Readers : result[r].after # None /\ result[r].ret # None /\ result[r].from = "memory"

\* the slice bytes[min(offset, len) .. min(offset + size, len)], offset + size
\* taken as a number (never wrapping)
ExactSlice(bytes, offset, size) ==
    LET total == AddUsize(offset, size)
        len == U64(Len(bytes))
        end == IF total.overflow THEN len ELSE MinUsize(total.sum, len)
        start == MinUsize(offset, len)
    IN  SubSeq(bytes, Index(start) + 1, Index(end))

\* C11 (SpecSlice): on the hit path and on the miss path read replies with
\* exactly bytes[min(offset, len) .. min(offset + size, len)]; for an offset at
\* or past the end that is the empty slice, not an error.
ReadSliceExact ==
    call.op = "read"
    => (/\ call.reply.kind = "data"
        /\ call.reply.data = ExactSlice(call.bytes, call.offset, call.size))

\* C12 (SpecSlice): read never panics, whatever the offset (0 .. 2^64 - 1) and
\* the size (0 .. 2^32 - 1) are.
ReadNeverPanics ==
    call.op = "read" => call.reply.kind # "panic"

\* C13 (SpecRead): a read whose conversion fails returns EIO, and afterwards
\* the cache holds nothing for the key, in memory or on disk; the failed job
\* changed neither the memory map, nor the byte count, nor the cache files.
CodecFailureIsEIO ==
    (last.op = "read" /\ last.outcome = "codec_failed")
    => (/\ last.errno = "EIO"
        /\ last.ret = None
        /\ last.key[1] \notin DOMAIN data
        /\ last.key[1] \notin DOMAIN disk
        /\ last.cache = Some([data |-> data, disk |-> disk, current_size |-> current_size]))

CodecFailedAfterInvalidFile ==
    /\ last.op = "read" /\ last.outcome = "codec_failed"
    /\ last.errno = "EIO"
    /\ FileTampered
    /\ data # Empty

\* C14 (SpecPool): once the pool's drop has closed the submission channel, no
\* job that was still queued is run: no worker is running, or has run, a job
\* it received after the close.
QueuedJobsDiscarded ==
    \A w \in Workers : ~th[w].late

\* C15 (SpecPool): a drop that has begun completes: every worker leaves its
\* loop and is joined.
DropCompletes ==
    (pool.drop = "joining") ~> (pool.drop = "done")

DropCompleted ==
    /\ pool.drop = "done"
    /\ \E w \in Workers : th[w].pc = "exited" /\ th[w].late

\* C16 (SpecPool): every convert_image_blocking call returns, with the bytes
\* or with an error, also when the worker that has its job dies.
CallReturns ==
    \A r \in Readers :
        (th[r].pc = "wait") ~> (th[r].pc = "idle" /\ th[r].ret \in {"ok", "err", "cancelled"})

CallReturnedAfterWorkerDied ==
    \E r \in Readers, w \in Workers :
        th[r].pc = "idle" /\ th[r].ret = "cancelled" /\ th[w].pc = "dead"

\* a readdir or readdirplus call that was answered
Listed == call.op \in {"readdir", "readdirplus"} /\ call.errno = "none"

\* C17 (SpecDir): readdir and readdirplus at offset 0 answer with "." and then
\* ".." as their first two entries for every directory; for the root ".." has
\* the root inode.
DotAndDotDotFirst ==
    Listed /\ call.offset = 0 =>
        /\ Len(call.entries) >= 2
        /\ call.entries[1].name = Name(".", "") /\ call.entries[1].inode = call.parent
        /\ call.entries[2].name = Name("..", "")
        /\ call.before.inode_map[call.parent] = RootPath => call.entries[2].inode = ROOT_INODE

\* C18 (SpecDir): with L the full listing of the directory, readdir at cookie
\* k >= 0 answers with exactly L[k+1], L[k+2], ..., and the entry at position
\* i carries offset i, so resuming at the offset of the last entry received
\* continues with the next one.
CookieContract ==
    Listed /\ call.offset >= 0 =>
        LET L == all_entries(call.before, host, call.parent).entries
            k == call.offset
        IN  /\ Len(call.entries) = IF k < Len(L) THEN Len(L) - k ELSE 0
            /\ \A i \in 1..Len(call.entries) :
                   /\ call.entries[i].offset = k + i
                   /\ call.entries[i].name = L[k + i].name
                   /\ call.entries[i].inode = L[k + i].inode

ResumedInListing ==
    /\ Listed
    /\ call.offset >= 2
    /\ Len(call.entries) >= 2
    /\ call.entries[1].offset = call.offset + 1

\* C19 (SpecDir): lookup of a UTF-8 name under an unknown parent fails with
\* ENOENT; under a known parent it answers with a regular file and its inode
\* when the child path resolves to a host image, else with a directory and its
\* inode when the path is a virtual directory, else with ENOENT; a failed
\* lookup leaves the inode table as it was.
LookupDecision ==
    call.op = "lookup" =>
        LET t == call.before
            virtual_path == Join(t.inode_map[call.parent], call.name)
        IN  /\ call.errno # "none" => Table = t /\ call.inode = 0
            /\ call.name # NonUtf8 =>
                 IF call.parent \notin DOMAIN t.inode_map THEN call.errno = "ENOENT"
                 ELSE IF get_real_path(host, virtual_path) # None
                 THEN /\ call.errno = "none" /\ call.kind = "RegularFile"
                      /\ inode_map[call.inode] = virtual_path
                 ELSE IF is_virtual_directory(host, virtual_path)
                 THEN /\ call.errno = "none" /\ call.kind = "Directory"
                      /\ inode_map[call.inode] = virtual_path
                 ELSE call.errno = "ENOENT"

LookupResolvedHeic ==
    /\ call.op = "lookup"
    /\ call.errno = "none"
    /\ call.kind = "RegularFile"
    /\ call.name = Name("a", "heic")
    /\ get_real_path(host, inode_map[call.inode]) = Some(<<Name("a", "jpg")>>)

\* C20 (SpecDir): in the listing of a directory inside a mount, every host file
\* with a UTF-8 name whose detected format is an image appears with the
\* extension heic, a regular file that is no image does not appear, directories
\* appear under their names, and the entry that is the mount point is left out.
ListingCorrect ==
    LET virtual_dir == call.before.inode_map[call.parent]
        names == {call.entries[i].name : i \in 1..Len(call.entries)}
        dir == host[Tail(virtual_dir)]
    IN  /\ Listed /\ call.offset = 0
        /\ virtual_dir # <<>> /\ virtual_dir[1] = mount_name /\ Tail(virtual_dir) \in DOMAIN host
        => \A i \in 1..Len(dir) :
             LET e == dir[i]
                 image == e.content # "none" \/ from_extension(e.name.ext) # "none"
             IN  /\ e.mount_point => e.name \notin names
                 /\ e.kind = "dir" /\ ~e.mount_point => e.name \in names
                 /\ e.kind = "file" /\ image /\ e.name # NonUtf8
                        => Name(e.name.stem, "heic") \in names
                 /\ e.kind = "file" /\ ~image
                        => e.name \notin names /\ Name(e.name.stem, "heic") \notin names

\* C21 (SpecDir): no listing answered by readdir or readdirplus holds two
\* entries with the same name; two host files that collide under the rewrite
\* give one entry.
ListingNamesDistinct ==
    Listed =>
        \A i, j \in 1..Len(call.entries) :
            call.entries[i].name = call.entries[j].name => i = j

\* C24 (SpecKey): two tuples (host_path, original_size, quality, speed, chroma,
\* max_resolution) that differ in an input have different keys, and equal
\* tuples have the same key.
KeySensitive ==
    call.op = "create_cache_key" => (call.a = call.b <=> call.key_a = call.key_b)

\* the host directory of the source holds a file with this stem and extension
OnHost(stem, ext) == \E i \in 1..Len(host[<<>>]) : host[<<>>][i].name = Name(stem, ext)

\* C22 (SpecResolve): for a virtual name that ends in .heic get_real_path
\* returns the candidate with the first of the extensions heic, jpg, jpeg, png,
\* gif, webp, bmp, tiff that exists on the host, so an existing .heic wins, and
\* nothing when none exists or when the mount name is that of no source.
ResolveOrder ==
    call.op = "get_real_path" /\ call.virtual_path[2].ext = "heic" =>
        LET order == <<"heic", "jpg", "jpeg", "png", "gif", "webp", "bmp", "tiff">>
            stem == call.virtual_path[2].stem
            first(i) == OnHost(stem, order[i]) /\ \A j \in 1..(i - 1) : ~OnHost(stem, order[j])
        IN  IF call.virtual_path[1] # mount_name THEN call.ret = None
            ELSE /\ \A i \in 1..Len(order) : first(i) <=> call.ret = Some(<<Name(stem, order[i])>>)
                 /\ call.ret = None <=> \A i \in 1..Len(order) : ~OnHost(stem, order[i])

HeicWinsOverSibling ==
    /\ call.op = "get_real_path"
    /\ OnHost("a", "heic") /\ OnHost("a", "jpg")
    /\ call.ret = Some(<<Name("a", "heic")>>)

\* C23 (SpecDir): lookup under the root answers with a directory for a name
\* exactly when the listing of the root holds that name.
TopLevelDirectoryIsListed ==
    call.op = "lookup" /\ call.parent = ROOT_INODE /\ call.name # NonUtf8 =>
        LET listing == list_virtual_directory_with_exclusions(host, RootPath)
        IN  (call.errno = "none" /\ call.kind = "Directory")
                <=> \E i \in 1..Len(listing) : listing[i].name = call.name

\* a read whose conversion succeeded and whose own cache write failed
ReadWithFailedWrite ==
    last.op = "read" /\ last.codec /\ last.outcome \in {"err_open", "err_short"}

FilePlaintext(file, filepath) ==
    IF file.hdr = None THEN None
    ELSE IF file.hdr[1].encrypted = 1
    THEN IF encryption_enabled THEN decrypt_data(file.pay, file.hdr[1].nonce, filepath) ELSE None
    ELSE Some(file.pay)

FileValid(file, filepath, settings) ==
    /\ FileLen(file) >= HEADER_SIZE
    /\ file.hdr[1].magic = "FHIC"
    /\ file.hdr[1].version = 1
    /\ file.hdr[1].quality = settings.quality
    /\ file.hdr[1].speed = settings.speed
    /\ file.hdr[1].chroma = settings.chroma
    /\ FilePlaintext(file, filepath) # None
    /\ Sha256(FilePlaintext(file, filepath)[1]) = file.hdr[1].checksum

DiskGet == last.op = "get" /\ ~last.inmem

\* C26: a get of a key that memory does not hold returns the plaintext of the cache file
\* when the file passes every validation (length, magic, version, parameters,
\* decryption, checksum); in every other case it returns nothing and the file is gone
\* from the disk afterwards, and without a file it returns nothing.
DiskLoadValidated ==
    DiskGet =>
        LET key == last.key[1]
            filepath == PathOfKey(key)
        IN  IF last.file = None
            THEN last.ret = None /\ key \notin DOMAIN disk
            ELSE IF FileValid(last.file[1], filepath, last.settings)
            THEN /\ last.ret = FilePlaintext(last.file[1], filepath)
                 /\ key \in DOMAIN disk /\ disk[key] = last.file[1]
            ELSE last.ret = None /\ key \notin DOMAIN disk

\* a get found a file of a wrong version, returned nothing and deleted the file
WrongVersionDeleted ==
    /\ DiskGet
    /\ last.file # None
    /\ last.file[1].hdr # None
    /\ last.file[1].hdr[1].version # 1
    /\ last.ret = None
    /\ last.key[1] \notin DOMAIN disk

\* C27: a put that repeats the put before it (same key, same bytes, both written
\* completely) leaves the cache as the first put left it: the same entries in memory,
\* the same files, the same access order and the same accounted size.
PutIdempotent ==
    [][(/\ last.op = "put" /\ last.outcome = "ok"
        /\ last'.op = "put" /\ last'.outcome = "ok"
        /\ last'.key = last.key /\ last'.bytes = last.bytes)
       => (/\ data' = data
           /\ disk' = disk
           /\ access_times' = access_times
           /\ current_size' = current_size)]_vars

\* the two stages of the classification, read off the host
MatchesPattern(name) ==
    name # NonUtf8 /\ name.ext \in {"jpg", "jpeg", "png", "gif", "heic"}

SniffsAsImage(name) ==
    \E i \in 1..Len(host[<<>>]) :
        /\ host[<<>>][i].name = name
        /\ host[<<>>][i].kind = "file"
        /\ host[<<>>][i].content \in {"jpeg", "png", "gif", "heic", "webp", "bmp", "tiff"}

\* C28: is_image_file is true exactly when the file name matches a configured pattern
\* or an existing file's first bytes are those of a supported image type; a name that
\* matches is an image whatever the content (or without any file), and a path positive
\* in neither stage is not an image.
TwoStageClassification ==
    call.op = "is_image_file" =>
        LET name == call.path[1]
        IN  /\ call.ret <=> (MatchesPattern(name) \/ SniffsAsImage(name))
            /\ MatchesPattern(name) => call.ret
            /\ ~MatchesPattern(name) /\ ~SniffsAsImage(name) => ~call.ret

\* a file without an extension was classified as an image by its content
ImageByContentOnly ==
    /\ call.op = "is_image_file"
    /\ call.path[1] = Name("IMG_1", "")
    /\ SniffsAsImage(call.path[1])
    /\ call.ret

\* C29: the size lookup, getattr and readdirplus report for a regular file is the
\* length of the converted artifact when the cache holds it at the call, and the
\* length of the host source otherwise (so the three agree in one cache state).
AttributeSize ==
    call.op \in {"lookup", "getattr", "readdirplus"} =>
        \A i \in 1..Len(call.sizes) :
            call.sizes[i].size = IF call.sizes[i].held # None
                                 THEN Size(call.sizes[i].held[1])
                                 ELSE SourceSize(SourcePathOf(call.sizes[i].real_path))

\* a caller whose convert_image_blocking has just returned Ok(bytes)
ReturnedOk(r) == th[r].pc = "put"

Holds(r) ==
    \/ KeyOfThread(r) \in DOMAIN data
    \/ load_from_disk_key(disk, KeyOfThread(r), th[r].path, heic_settings) # None

\* C30 as stated: when convert_image_blocking returns Ok, the cache holds the artifact
\* under the key of the job.
OkImpliesCached == \A r \in Readers : ReturnedOk(r) => Holds(r)

\* C30: the worker's put precedes its send of Ok(bytes): when convert_image_blocking
\* returns Ok the worker's put under the key of the job has run, and memory holds the
\* returned bytes under that key unless an eviction pass removed the entry since; a
\* worker whose codec failed sends Err and leaves the cache as it was.
WorkerPutPrecedesOk ==
    /\ [](\A r \in Readers :
             ReturnedOk(r) =>
                 /\ th[r].stored
                 /\ th[r].kept => /\ KeyOfThread(r) \in DOMAIN data
                                  /\ data[KeyOfThread(r)].data = th[r].bytes[1])
    /\ [][\A r \in Readers :
              chan[r] # SendErr /\ chan'[r] = SendErr =>
                  UNCHANGED <<data, access_times, current_size, disk>>]_vars

\* convert_image_blocking returned Ok while the artifact the worker put is in memory
OkReturnedWhileCached ==
    \E r \in Readers :
        /\ ReturnedOk(r)
        /\ th[r].stored /\ th[r].kept
        /\ KeyOfThread(r) \in DOMAIN data
        /\ data[KeyOfThread(r)].data = th[r].bytes[1]

\* a call of prefetch: a job counted, no caller waiting for it
PrefetchStep == ops' = ops + 1 /\ th' = th

CacheHolds(path) ==
    \/ KeyOf(path, heic_settings) \in DOMAIN data
    \/ load_from_disk_key(disk, KeyOf(path, heic_settings), path, heic_settings) # None

FollowingSibling(name) ==
    /\ Rank(name) > Rank(call.current)
    /\ \E i \in 1..Len(host[<<>>]) :
           /\ host[<<>>][i].name = name
           /\ host[<<>>][i].kind = "file"
           /\ \/ host[<<>>][i].content \in {"jpeg", "png", "gif", "heic", "webp", "bmp", "tiff"}
              \/ name.ext \in {"jpg", "jpeg", "png", "gif", "heic", "heif", "webp", "bmp",
                                "tif", "tiff"}

\* C32: a read prefetches only convertible siblings that follow the served file in
\* the sorted order of its directory, at most prefetch_count of them, nearest first
\* and without skipping a nearer one; with prefetch_count = 0 it prefetches nothing.
PrefetchHook ==
    call.op = "read" =>
        LET p == call.prefetched
        IN  /\ Len(p) <= call.prefetch_count
            /\ \A i \in 1..Len(p) : FollowingSibling(p[i])
            /\ \A i, j \in 1..Len(p) : i < j => Rank(p[i]) < Rank(p[j])
            /\ \A i \in 1..Len(p) :
                   \A k \in 1..Len(ByteOrder) :
                       FollowingSibling(ByteOrder[k]) /\ k < Rank(p[i])
                           => \E j \in 1..Len(p) : p[j] = ByteOrder[k]
            /\ call.prefetch_count = 0 => p = <<>>

\* a read prefetched two siblings and left a farther one alone
PrefetchedNearestTwo ==
    /\ call.op = "read"
    /\ call.prefetch_count = 2
    /\ call.prefetched = <<Name("b", "png"), Name("d", "")>>
    /\ FollowingSibling(Name("f", "gif"))

\* the sum of the sizes of the entries of the in-memory map
RECURSIVE SumSizes(_, _)
SumSizes(entries, keys) ==
    IF keys = {} THEN 0
    ELSE LET key == CHOOSE k \in keys : TRUE
         IN  entries[key].size + SumSizes(entries, keys \ {key})

MemoryBytes == SumSizes(data, DOMAIN data)

\* C33: current_size is the sum of the sizes of the entries held in memory.
MemoryAccounting == current_size = MemoryBytes

\* C34: after a put the entries held in memory take at most max_size bytes.
MemoryBudget == last.op = "put" => MemoryBytes <= max_size

\* the name is one the listing of the directory shows as a regular file
ListedAsFile(virtual_dir, name) ==
    LET l == list_virtual_directory_with_exclusions(host, virtual_dir)
    IN  \E i \in 1..Len(l) : l[i].name = name /\ ~l[i].is_directory

\* C35: a lookup of a name that the listing of the directory shows as a regular file
\* succeeds with the attributes of a regular file.
ListingResolves ==
    /\ call.op = "lookup"
    /\ call.parent \in DOMAIN call.before.inode_map
    /\ ListedAsFile(call.before.inode_map[call.parent], call.name)
    => call.errno = "none" /\ call.kind = "RegularFile"

\* C36: the delete that ends a get which found an invalid file never removes a file
\* that is valid by then (a concurrent put wrote it after the get's read).
GetDeletesOnlyInvalid ==
    [][\A r \in Readers :
          /\ th[r].pc = "remove" /\ th'[r].pc = "submit"
          /\ th[r].image # None
          /\ load_from_disk_key(disk, KeyOfThread(r), th[r].path, heic_settings) # None
          => KeyOfThread(r) \in DOMAIN disk']_vars

\* a get that went to the disk and found a file whose header parses
DiskGetParsed == DiskGet /\ last.file # None /\ last.file[1].hdr # None

\* the original reading of C37: with encryption enabled a file that is not flagged
\* encrypted is never served, it is deleted
NoDowngrade ==
    (DiskGetParsed /\ encryption_enabled /\ last.file[1].hdr[1].encrypted # 1) =>
        last.ret = None /\ last.key[1] \notin DOMAIN disk

\* C37: the encrypted flag is checked one way only. With encryption disabled a file
\* flagged encrypted is never served: get returns nothing and deletes it. With
\* encryption enabled a file that is not flagged encrypted is served as it is, without
\* decryption, exactly when it passes the other validations (length, magic, version,
\* parameters, checksum of the payload), and is deleted otherwise.
EncryptionCheckedOneWay ==
    DiskGetParsed =>
        LET key == last.key[1]
            file == last.file[1]
            header == file.hdr[1]
            others == /\ FileLen(file) >= HEADER_SIZE
                      /\ header.magic = "FHIC" /\ header.version = 1
                      /\ header.quality = last.settings.quality
                      /\ header.speed = last.settings.speed
                      /\ header.chroma = last.settings.chroma
                      /\ Sha256(file.pay) = header.checksum
        IN  /\ (header.encrypted = 1 /\ ~encryption_enabled) =>
                   last.ret = None /\ key \notin DOMAIN disk
            /\ (header.encrypted # 1 /\ encryption_enabled) =>
                   IF others THEN last.ret = Some(file.pay) /\ key \in DOMAIN disk
                   ELSE last.ret = None /\ key \notin DOMAIN disk

\* with encryption enabled a get served the payload of a file not flagged encrypted
PlainFileServedUnderEncryption ==
    /\ DiskGetParsed
    /\ encryption_enabled
    /\ last.file[1].hdr[1].encrypted # 1
    /\ last.ret = Some(last.file[1].pay)

\* the pool is alive: some worker holds the receiving end of the submission channel
PoolAlive(threads) == Receivers(threads) # {}

\* worker w leaves recv() with a job
Received(w) == th[w].pc = "recv" /\ th'[w].pc = "convert"

\* a callback that may submit is never kept waiting by the state of the queue
SubmitNeverBlocks ==
    (pool.drop = "none" /\ ops < MaxJobs) =>
        /\ \A path \in PoolPaths : ENABLED PoolPrefetch(path)
        /\ \A r \in Readers, path \in PoolPaths : th[r].pc = "idle" => ENABLED PoolCall(r, path)

\* the queue changes only by a submission at its end, by one worker receiving its first
\* job, or by the death of the last worker
QueueStep ==
    /\ \A w \in Workers :
          Received(w) => /\ queue # <<>> /\ queue' = Tail(queue)
                         /\ th'[w].path = Head(queue).path
                         /\ th'[w].sender = Head(queue).sender
                         /\ \A v \in Workers \ {w} : th'[v] = th[v]
    /\ queue' # queue =>
          \/ \E job \in {[path |-> path, sender |-> sender] :
                             path \in PoolPaths, sender \in Readers \cup {""}} :
                 PoolAlive(th) /\ queue' = Append(queue, job)
          \/ \E w \in Workers : Received(w)
          \/ ~PoolAlive(th') /\ queue' = <<>>

\* C38: while some worker is alive every submitted job is received by exactly one
\* worker and in submission order (a job leaves the queue only from its head, into one
\* worker that was in recv(); it is appended by its submission and stays queued until
\* then), a queue that holds jobs is emptied eventually, and a submission is possible
\* whatever the queue holds.
JobDelivery ==
    /\ []SubmitNeverBlocks
    /\ [][QueueStep]_vars
    /\ (queue # <<>>) ~> (queue = <<>>)

\* a worker runs the job of one caller while a job submitted after it is still queued
JobReceivedInOrder ==
    \E w \in Workers :
        /\ th[w].pc = "convert"
        /\ Len(queue) = 1
        /\ th[w].sender # queue[1].sender
        /\ PoolAlive(th)

\* C39: when a worker receives a prefetch job, the own job of the read whose hook
\* submitted it is not still waiting in the queue behind it.
OwnJobBeforePrefetches ==
    [][\A w \in Workers :
          (Received(w) /\ Head(queue).sender = "") =>
              ~\E i \in 2..Len(queue) : queue[i].sender = Head(queue).by]_vars

\* a step of lookup or getattr
AttrQuery ==
    \/ \E parent \in 1..MaxInode, name \in AttrNames : AttrLookup(parent, name)
    \/ \E inode \in 1..MaxInode : AttrGetattr(inode)

\* C40 as stated: lookup and getattr delete no cache file and leave the entries in
\* memory, current_size and the access times as they were.
AttrQueriesLeaveCache ==
    [][AttrQuery => /\ DOMAIN disk \subseteq DOMAIN disk'
                    /\ DOMAIN data' = DOMAIN data
                    /\ current_size' = current_size
                    /\ access_times' = access_times]_vars

\* the keys other than key, in the order of their access times
OtherTimes(times, key) == SelectSeq(times, LAMBDA k : k # key)

\* C40: lookup and getattr change the cache only by the one get they make for the key
\* of a regular file. They write and evict nothing: no cache file is created or
\* altered and no entry leaves memory. They may delete the file of the queried key when
\* it fails validation, load the valid file of the queried key into memory (current_size
\* grows by its length), and move the queried key to the most recent access time; the
\* other keys keep their files, entries and order. A query that does not reply the
\* attributes of a regular file leaves the cache unchanged.
AttrQueriesOnlyGet ==
    [][AttrQuery =>
          IF call'.sizes = <<>> THEN UNCHANGED <<data, access_times, current_size, disk>>
          ELSE LET path == SourcePathOf(call'.sizes[1].real_path)
                   key == KeyOf(path, heic_settings)
                   loaded == load_from_disk_key(disk, key, path, heic_settings)
               IN  /\ \A k \in DOMAIN disk' : k \in DOMAIN disk /\ disk'[k] = disk[k]
                   /\ \A k \in DOMAIN disk \ DOMAIN disk' :
                          k = key /\ key \notin DOMAIN data /\ loaded = None
                   /\ \A k \in DOMAIN data : k \in DOMAIN data' /\ data'[k] = data[k]
                   /\ \A k \in DOMAIN data' \ DOMAIN data :
                          k = key /\ loaded = Some(data'[k].data)
                   /\ current_size' = current_size +
                          (IF key \in DOMAIN data' \ DOMAIN data THEN Size(data'[key].data) ELSE 0)
                   /\ OtherTimes(access_times', key) = OtherTimes(access_times, key)]_vars

\* before any put, an attribute query has loaded the file of a.jpg into memory
AttrQueryLoadedEntry ==
    /\ call.op \in {"lookup", "getattr"}
    /\ call.sizes # <<>>
    /\ last.op = "none"
    /\ KeyOf("/src/a.jpg", heic_settings) \in DOMAIN data
    /\ current_size > 0

====
